---- MODULE Spec2Model ----
(***************************************************************************)
(* Verification model of the F-150 expert agent (rymichal/f150-mechanic).  *)
(*                                                                         *)
(* One conversation thread of the LangGraph state machine is modelled:     *)
(*   Spec      the graph that create_f150_graph wires                      *)
(*             (pre_filter -> agent -> tools -> agent ... -> token_tracker)*)
(*   SpecDual  the dual-context nodes (chat_agent_node, approval_node,     *)
(*             agentic_rag_node) driven through the routing of the design  *)
(*             document, section 4.3                                       *)
(*   SpecRag   single runs of agentic_rag_node on a pending manual search  *)
(*   SpecGate  the approval loop of SpecDual (chat_agent_node, approval_node)*)
(*   SpecTools single runs of the tools node, with failing services        *)
(*   SpecScenario  the graph of Spec with a 1000-token context limit       *)
(*   SpecGateRuns  single runs of approval_node on any last turn           *)
(*   SpecRagAny    single runs of agentic_rag_node on any last turn        *)
(*   SpecAssess    _assess_relevance on ranked lists of any length         *)
(*   SpecThreads   two thread ids of the graph of Spec, interleaved        *)
(*   SpecCounter   the OllamaTokenCounter of main.py                       *)
(*   SpecFair      one traversal of the graph of Spec under weak fairness  *)
(*                 of the node steps                                       *)
(*   SpecNodes     one traversal through every node of SpecDual            *)
(*   SpecRagFull   SpecRag runs on an index that fills the fallback k      *)
(*   SpecFilter    the Pre-Filter on one user turn of any text             *)
(*   SpecBoth      token_tracking_node and the OllamaTokenCounter on the   *)
(*                 same assistant turns                                    *)
(***************************************************************************)
EXTENDS Integers, Sequences, FiniteSets, TLC

VARIABLES
    messages,                \* state["messages"]
    rag_context,             \* state["rag_context"]
    retrieved_documents,     \* state["retrieved_documents"]
    total_tokens,            \* state["total_tokens"]
    total_prompt_tokens,     \* state["total_prompt_tokens"]
    total_completion_tokens, \* state["total_completion_tokens"]
    context_limit,           \* state["context_limit"]
    bypass_agent,            \* state["bypass_agent"]
    next,                    \* checkpoint: the node that runs next ("END": traversal over)
    interrupted,             \* checkpoint: pending interrupt payload (NoInterrupt if none)
    approvalEnabled,         \* Config.TOOL_APPROVAL_ENABLED
    trackerLimit,            \* context_limit argument of create_token_tracking_node
    indexCap,                \* number of chunks the vector store holds
    prev,                    \* history: the node that ran last
    turns,                   \* history: user turns invoked so far
    rounds,                  \* history: assistant turns of the thread that requested tools
    nextCallId,              \* history: ids handed to tool calls so far
    executed,                \* history: ids of the tool calls that were executed
    approvedIds,             \* history: ids of the tool calls approved through resume
    llmCalls,                \* history: Completion Service calls of the current traversal
    indexQueries,            \* history: Retrieval Index queries of the current traversal
    ragUses,                 \* history: prompts that carried the rag_context of the last write
    gate,                    \* history: last gate suspension (batch, decision)
    ragRun,                  \* history: trace of the last agentic_rag_node run
    saver,                   \* InMemorySaver: the checkpoint kept under each thread_id
    solo,                    \* history: thread 1 as it would be had it run alone
    counter,                 \* the OllamaTokenCounter of main.py
    tracked,                 \* history: the (prompt, completion) pairs track_interaction took
    extracted,               \* history: the last extract_token_counts call and its result
    assess                   \* history: the last _assess_relevance call and its result

state == <<messages, rag_context, retrieved_documents, total_tokens,
           total_prompt_tokens, total_completion_tokens, context_limit, bypass_agent>>

vars == <<messages, rag_context, retrieved_documents, total_tokens,
          total_prompt_tokens, total_completion_tokens, context_limit, bypass_agent,
          next, interrupted, approvalEnabled, trackerLimit, indexCap, prev, turns,
          rounds, nextCallId, executed, approvedIds, llmCalls, indexQueries, ragUses,
          gate, ragRun, saver, solo, counter, tracked,
          extracted, assess>>

-----------------------------------------------------------------------------
(* Bounds of the model *)

MaxTurns == 2
MaxRounds == 1
MaxIndex == 1
MaxRagIndex == 6
MaxThreadSteps == 6
MaxInteractions == 2
MaxDocs == 11

(* Program constants *)

CONTEXT_LIMIT == 128000
DefaultContextLimit == 128000
ScenarioLimit == 1000
ManualSearchK == 5
RagFirstK == 5
RagFallbackK == 8
RagMinRelevant == 2
TrustTopK == 5
MaxAssess == 10
TopRelevant == 5
CriticalPct == 95
WarningPct == 80
ModeratePct == 60

Min(a, b) == IF a < b THEN a ELSE b

Last(s) == s[Len(s)]

Range(s) == {s[i] : i \in 1..Len(s)}

-----------------------------------------------------------------------------
(* Messages *)

NoUsage == [hasP |-> FALSE, p |-> 0, hasC |-> FALSE, c |-> 0]

Usage(p, c) == [hasP |-> TRUE, p |-> p, hasC |-> TRUE, c |-> c]

Msg(type, kind, text, docs, n, calls, callId, usage) ==
    [type |-> type, kind |-> kind, text |-> text, docs |-> docs, n |-> n,
     tool_calls |-> calls, tool_call_id |-> callId, usage |-> usage]

HumanMessage(text) == Msg("human", "user", text, <<>>, 0, <<>>, 0, NoUsage)

AIMessage(kind, calls, usage) == Msg("ai", kind, <<>>, <<>>, 0, calls, 0, usage)

ToolMessage(kind, docs, n, callId) == Msg("tool", kind, <<>>, docs, n, <<>>, callId, NoUsage)

SystemMessage(kind, docs, n) == Msg("system", kind, <<>>, docs, n, <<>>, 0, NoUsage)

ToolCall(name, args, id) == [name |-> name, args |-> args, id |-> id]

\* mutant: messages as a key without reducer, the returned list replaces the log
AddMessages_overwrite(msgs, new) == new

\* the add_messages reducer of MessagesState: new messages are appended
AddMessages(msgs, new) == msgs \o new

-----------------------------------------------------------------------------
(* Pre-Filter: src/utils/conversational_filter.py                          *)
(* A text is a sequence of tokens: words, " " (whitespace), "!", ".", "?". *)

LowerToken(t) ==
    CASE t = "Thanks" -> "thanks"
      [] t = "OK" -> "ok"
      [] t = "Hi" -> "hi"
      [] OTHER -> t

Lower(text) == [i \in 1..Len(text) |-> LowerToken(text[i])]

RECURSIVE LStrip(_)
LStrip(text) ==
    IF text # <<>> /\ Head(text) = " " THEN LStrip(Tail(text)) ELSE text

RECURSIVE RStrip(_)
RStrip(text) ==
    IF text # <<>> /\ Last(text) = " "
    THEN RStrip(SubSeq(text, 1, Len(text) - 1))
    ELSE text

Strip(text) == RStrip(LStrip(text))

Greetings == {<<"hi">>, <<"hello">>, <<"hey">>, <<"sup">>, <<"yo">>, <<"howdy">>}

Thanks == {<<"thank", " ", "you">>, <<"thanks">>, <<"thx">>, <<"ty">>,
           <<"thank", " ", "u">>, <<"tysm">>, <<"appreciate", " ", "it">>}

Acknowledgments == {<<"great">>, <<"ok">>, <<"okay">>, <<"got", " ", "it">>, <<"cool">>,
                    <<"nice">>, <<"perfect">>, <<"awesome">>, <<"excellent">>}

CombinedAck == {<<"great">>, <<"ok">>, <<"okay">>, <<"cool">>, <<"nice">>,
                <<"perfect">>, <<"awesome">>}

CombinedThanks == {<<"thank", " ", "you">>, <<"thanks">>, <<"thx">>}

Farewells == {<<"bye">>, <<"goodbye">>, <<"see", " ", "you">>, <<"later">>, <<"cya">>,
              <<"take", " ", "care">>}

Affirmations == {<<"yes">>, <<"yeah">>, <<"yep">>, <<"yup">>, <<"sure">>, <<"alright">>}

Negations == {<<"no">>, <<"nope">>, <<"nah">>}

\* the trailing class [\s!.]
Trailing == {" ", "!", "."}

IsPrefixAt(p, text, at) ==
    /\ at + Len(p) <= Len(text)
    /\ \A i \in 1..Len(p) : text[at + i] = p[i]

AllIn(text, from, to, S) == \A i \in from..to : text[i] \in S

\* re.match(r'^(a1|a2|...)[\s!.]*$', text)
MatchAlt(alts, text) ==
    \E p \in alts :
        /\ IsPrefixAt(p, text, 0)
        /\ AllIn(text, Len(p) + 1, Len(text), Trailing)

\* re.match(r'^(a1|...)\s*(t1|...)[\s!.]*$', text)
MatchCombined(acks, thanks, text) ==
    \E a \in acks, t \in thanks, j \in 0..Len(text) :
        /\ IsPrefixAt(a, text, 0)
        /\ j >= Len(a)
        /\ AllIn(text, Len(a) + 1, j, {" "})
        /\ IsPrefixAt(t, text, j)
        /\ AllIn(text, j + Len(t) + 1, Len(text), Trailing)

\* mutant: the patterns are searched for anywhere in the text (re.search
\* without the anchors) instead of matched against the whole of it
is_conversational_only_search(text) ==
    LET text_lower == Strip(Lower(text)) IN
        \E p \in Greetings \cup Thanks \cup Acknowledgments \cup Farewells
                 \cup Affirmations \cup Negations :
            \E at \in 0..Len(text_lower) : IsPrefixAt(p, text_lower, at)

is_conversational_only(text) ==
    LET text_lower == Strip(Lower(text)) IN
        \/ MatchAlt(Greetings, text_lower)
        \/ MatchAlt(Thanks, text_lower)
        \/ MatchAlt(Acknowledgments, text_lower)
        \/ MatchCombined(CombinedAck, CombinedThanks, text_lower)
        \/ MatchAlt(Farewells, text_lower)
        \/ MatchAlt(Affirmations, text_lower)
        \/ MatchAlt(Negations, text_lower)

\* response_map, in insertion order
ResponseKeywords == <<"thank", "great", "ok", "hi", "hello", "hey", "bye", "yes", "no">>

\* `keyword in token`, for the words of the vocabulary
KeywordInToken(k, t) ==
    \/ k = t
    \/ k = "thank" /\ t = "thanks"
    \/ k = "ok" /\ t = "okay"
    \/ k = "bye" /\ t = "goodbye"
    \/ k = "no" /\ t = "nope"
    \/ k = "hi" /\ t = "this"

KeywordIn(k, text) == \E i \in 1..Len(text) : KeywordInToken(k, text[i])

get_conversational_response(text) ==
    LET text_lower == Strip(Lower(text))
        hits == {i \in 1..Len(ResponseKeywords) : KeywordIn(ResponseKeywords[i], text_lower)}
    IN  IF hits = {} THEN "default"
        ELSE ResponseKeywords[CHOOSE i \in hits : \A j \in hits : i <= j]

RECURSIVE LastHuman(_)
LastHuman(msgs) ==
    IF msgs = <<>> THEN 0
    ELSE IF Last(msgs).type = "human" THEN Len(msgs)
    ELSE LastHuman(SubSeq(msgs, 1, Len(msgs) - 1))

\* mutant: the non-conversational branch returns no bypass_agent, so the flag
\* an earlier conversational turn left in the checkpoint stays
pre_filter_node_keeps_stale(msgs) ==
    LET h == LastHuman(msgs) IN
        IF h # 0 /\ is_conversational_only(msgs[h].text)
        THEN [messages |-> <<AIMessage(get_conversational_response(msgs[h].text), <<>>, NoUsage)>>,
              bypass_agent |-> TRUE]
        ELSE [messages |-> <<>>,
              bypass_agent |-> \E i \in 1..Len(msgs) :
                                  msgs[i].type = "human" /\ is_conversational_only(msgs[i].text)]

\* the patch pre_filter_node returns: new messages and bypass_agent
pre_filter_node(msgs) ==
    LET h == LastHuman(msgs) IN
        IF h # 0 /\ is_conversational_only(msgs[h].text)
        THEN [messages |-> <<AIMessage(get_conversational_response(msgs[h].text), <<>>, NoUsage)>>,
              bypass_agent |-> TRUE]
        ELSE [messages |-> <<>>, bypass_agent |-> FALSE]

-----------------------------------------------------------------------------
(* Collaborators: the Completion Service and the Retrieval Index           *)

Pct(limit, k) == (limit * k) \div 100

\* usage metadata a final answer may carry (prompt_eval_count, eval_count)
FinalUsages(limit) ==
    {NoUsage,
     [hasP |-> TRUE, p |-> Pct(limit, 20), hasC |-> FALSE, c |-> 0],
     Usage(Pct(limit, 50), Pct(limit, 10)),
     Usage(Pct(limit, 60), Pct(limit, 15))}

ToolUsages(limit) == {Usage(Pct(limit, 15), Pct(limit, 5))}

Call(name, args) == [name |-> name, args |-> args]

\* the tool-call batches the model may request
Batches ==
    {<<Call("search_web", "Q")>>,
     <<Call("search_f150_manual", "Q")>>,
     <<Call("search_f150_manual", "Q"), Call("search_web", "Q")>>,
     <<Call("search_f150_manual", "")>>,
     <<Call("search_f150_manual", "Q"), Call("search_f150_manual", "Q2")>>}

WithIds(batch, base) ==
    [i \in 1..Len(batch) |-> ToolCall(batch[i].name, batch[i].args, base + i)]

\* llm.invoke(...): one assistant message; tool calls get fresh ids
LLMResponses(mayCallTools, limit, base) ==
    {AIMessage("answer", <<>>, u) : u \in FinalUsages(limit)}
    \cup (IF mayCallTools
          THEN {AIMessage("tool_request", WithIds(b, base), u) :
                    b \in Batches, u \in ToolUsages(limit)}
          ELSE {})

Document(q, i) == [page_content |-> <<q, i>>, page |-> 100 + i]

\* vector_store.similarity_search(q, k) when the index yields n hits
similarity_search(q, k, n) == [i \in 1..Min(k, n) |-> Document(q, i)]

WebOutcomes == {"web_results", "web_empty", "web_not_configured", "web_error"}

-----------------------------------------------------------------------------
(* The graph of create_f150_graph: src/graph/f150_graph.py                 *)

\* call_model: the system message is put in front of the history
CallModelPrompt(msgs) ==
    IF msgs = <<>> \/ msgs[1].type # "system"
    THEN <<SystemMessage("system_prompt", <<>>, 0)>> \o msgs
    ELSE msgs

\* mutant: the injected system message is returned along with the response
call_model_returns_prompt(response) ==
    [messages |-> <<SystemMessage("system_prompt", <<>>, 0), response>>]

\* call_model returns {"messages": [response]}
call_model(response) == [messages |-> <<response>>]

\* mutant: the bypass flag is read the wrong way round
should_bypass_agent_inverted(bypass) == IF bypass THEN "agent" ELSE "END"

should_bypass_agent(bypass) == IF bypass THEN "END" ELSE "agent"

\* mutant: a turn with tool calls is routed to a node the graph does not have
should_continue_to_missing_node(msgs) ==
    IF Last(msgs).tool_calls # <<>> THEN "approval" ELSE "token_tracker"

\* mutant: the route depends on what happened earlier in the thread, a tool
\* call anywhere in the history, instead of on the last message
should_continue_any_call(msgs) ==
    IF \E i \in 1..Len(msgs) : msgs[i].tool_calls # <<>> THEN "tools" ELSE "token_tracker"

should_continue(msgs) ==
    IF Last(msgs).tool_calls # <<>> THEN "tools" ELSE "token_tracker"

\* search_f150_manual: the formatted sections of the hits
Section(i, doc) == [i |-> i, page |-> doc.page, content |-> doc.page_content]

search_f150_manual(question, n, callId) ==
    LET results == similarity_search(question, ManualSearchK, n) IN
        IF results = <<>>
        THEN ToolMessage("manual_no_results", <<>>, 0, callId)
        ELSE ToolMessage("manual_sections",
                         [i \in 1..Len(results) |-> Section(i, results[i])],
                         Len(results), callId)

\* search_web: every outcome of the Brave call comes back as a string
search_web(query, outcome, callId) == ToolMessage(outcome, <<>>, 0, callId)

\* ToolNode(tools): one ToolMessage per tool call of the last message
ToolNode(msgs, n, outcome) ==
    LET calls == Last(msgs).tool_calls IN
        [i \in 1..Len(calls) |->
            IF calls[i].name = "search_f150_manual"
            THEN search_f150_manual(calls[i].args, n, calls[i].id)
            ELSE search_web(calls[i].args, outcome, calls[i].id)]

CallIds(calls) == {calls[i].id : i \in 1..Len(calls)}

\* the tool-call ids a history already holds
IssuedIds(msgs) == Cardinality(UNION {CallIds(msgs[i].tool_calls) : i \in 1..Len(msgs)})

-----------------------------------------------------------------------------
(* Context Tracker: src/graph/token_tracking_node.py                       *)

RECURSIVE LastAI(_)
LastAI(msgs) ==
    IF msgs = <<>> THEN 0
    ELSE IF Last(msgs).type = "ai" THEN Len(msgs)
    ELSE LastAI(SubSeq(msgs, 1, Len(msgs) - 1))

\* usage_percentage >= pct, with usage_percentage = (total / limit) * 100
UsageAtLeast(total, limit, pct) == total * 100 >= pct * limit

\* mutant: the bands are tested lowest first, so the first match is never critical
_get_warning_message_lowest_first(total, limit) ==
    IF ~UsageAtLeast(total, limit, ModeratePct) THEN "none"
    ELSE IF UsageAtLeast(total, limit, WarningPct) THEN "warning"
    ELSE IF UsageAtLeast(total, limit, CriticalPct) THEN "critical"
    ELSE "moderate"

_get_warning_message(total, limit) ==
    IF UsageAtLeast(total, limit, CriticalPct) THEN "critical"
    ELSE IF UsageAtLeast(total, limit, WarningPct) THEN "warning"
    ELSE IF UsageAtLeast(total, limit, ModeratePct) THEN "moderate"
    ELSE "none"

\* mutant: the running total is overwritten by the last interaction
NewTotalPrompt_overwrite(old, prompt_tokens) == prompt_tokens

NewTotalPrompt(old, prompt_tokens) == old + prompt_tokens

NewTotalCompletion(old, completion_tokens) == old + completion_tokens

EmptyPatch == [empty |-> TRUE]

\* mutant: a turn without token counts is charged an estimate (one token per
\* turn of the history) instead of being skipped
token_tracking_node_estimating(msgs, oldPrompt, oldCompletion, limit) ==
    LET a == LastAI(msgs)
        reported == a # 0 /\ (msgs[a].usage.hasP \/ msgs[a].usage.hasC)
        prompt_tokens == IF ~reported THEN Len(msgs)
                         ELSE IF msgs[a].usage.hasP THEN msgs[a].usage.p ELSE 0
        completion_tokens == IF reported /\ msgs[a].usage.hasC THEN msgs[a].usage.c ELSE 0
        new_total_prompt == oldPrompt + prompt_tokens
        new_total_completion == oldCompletion + completion_tokens
        new_total_tokens == new_total_prompt + new_total_completion
        warning == _get_warning_message(new_total_tokens, limit)
    IN  IF prompt_tokens = 0 /\ completion_tokens = 0 THEN EmptyPatch
        ELSE [empty |-> FALSE,
              total_prompt_tokens |-> new_total_prompt,
              total_completion_tokens |-> new_total_completion,
              total_tokens |-> new_total_tokens,
              context_limit |-> limit,
              messages |-> IF warning = "none" THEN <<>>
                           ELSE <<SystemMessage(warning, <<>>, limit - new_total_tokens)>>]

\* the prompt and completion counts of the assistant turns after the last user turn
RECURSIVE TraversalPrompt(_)
TraversalPrompt(msgs) ==
    IF msgs = <<>> \/ Last(msgs).type = "human" THEN 0
    ELSE (IF Last(msgs).type = "ai" THEN Last(msgs).usage.p ELSE 0)
         + TraversalPrompt(SubSeq(msgs, 1, Len(msgs) - 1))

RECURSIVE TraversalCompletion(_)
TraversalCompletion(msgs) ==
    IF msgs = <<>> \/ Last(msgs).type = "human" THEN 0
    ELSE (IF Last(msgs).type = "ai" THEN Last(msgs).usage.c ELSE 0)
         + TraversalCompletion(SubSeq(msgs, 1, Len(msgs) - 1))

\* mutant: the counts of every assistant turn of the traversal are added
token_tracking_node_all_turns(msgs, oldPrompt, oldCompletion, limit) ==
    LET prompt_tokens == TraversalPrompt(msgs)
        completion_tokens == TraversalCompletion(msgs)
        new_total_prompt == NewTotalPrompt(oldPrompt, prompt_tokens)
        new_total_completion == NewTotalCompletion(oldCompletion, completion_tokens)
        new_total_tokens == new_total_prompt + new_total_completion
        warning == _get_warning_message(new_total_tokens, limit)
    IN  IF prompt_tokens = 0 /\ completion_tokens = 0 THEN EmptyPatch
        ELSE [empty |-> FALSE,
              total_prompt_tokens |-> new_total_prompt,
              total_completion_tokens |-> new_total_completion,
              total_tokens |-> new_total_tokens,
              context_limit |-> limit,
              messages |-> IF warning = "none" THEN <<>>
                           ELSE <<SystemMessage(warning, <<>>, limit - new_total_tokens)>>]

\* mutant: the band is computed from the totals before the update
token_tracking_node_stale_band(msgs, oldPrompt, oldCompletion, limit) ==
    LET a == LastAI(msgs)
        prompt_tokens == IF msgs[a].usage.hasP THEN msgs[a].usage.p ELSE 0
        completion_tokens == IF msgs[a].usage.hasC THEN msgs[a].usage.c ELSE 0
        new_total_prompt == NewTotalPrompt(oldPrompt, prompt_tokens)
        new_total_completion == NewTotalCompletion(oldCompletion, completion_tokens)
        new_total_tokens == new_total_prompt + new_total_completion
        warning == _get_warning_message(oldPrompt + oldCompletion, limit)
    IN  IF a = 0 THEN EmptyPatch
        ELSE IF prompt_tokens = 0 /\ completion_tokens = 0 THEN EmptyPatch
        ELSE [empty |-> FALSE,
              total_prompt_tokens |-> new_total_prompt,
              total_completion_tokens |-> new_total_completion,
              total_tokens |-> new_total_tokens,
              context_limit |-> limit,
              messages |-> IF warning = "none" THEN <<>>
                           ELSE <<SystemMessage(warning, <<>>, limit - new_total_tokens)>>]

\* the updates token_tracking_node returns ([empty |-> TRUE] for {})
token_tracking_node(msgs, oldPrompt, oldCompletion, limit) ==
    LET a == LastAI(msgs)
        prompt_tokens == IF msgs[a].usage.hasP THEN msgs[a].usage.p ELSE 0
        completion_tokens == IF msgs[a].usage.hasC THEN msgs[a].usage.c ELSE 0
        new_total_prompt == NewTotalPrompt(oldPrompt, prompt_tokens)
        new_total_completion == NewTotalCompletion(oldCompletion, completion_tokens)
        new_total_tokens == new_total_prompt + new_total_completion
        warning == _get_warning_message(new_total_tokens, limit)
    IN  IF a = 0 THEN EmptyPatch
        ELSE IF prompt_tokens = 0 /\ completion_tokens = 0 THEN EmptyPatch
        ELSE [empty |-> FALSE,
              total_prompt_tokens |-> new_total_prompt,
              total_completion_tokens |-> new_total_completion,
              total_tokens |-> new_total_tokens,
              context_limit |-> limit,
              messages |-> IF warning = "none" THEN <<>>
                           ELSE <<SystemMessage(warning, <<>>, limit - new_total_tokens)>>]

-----------------------------------------------------------------------------
(* Orchestrator of the dual-context state: src/graph/chat_agent_node.py    *)

\* _build_chat_prompt: the system message carries rag_context when it is non-empty
_build_chat_prompt(msgs, ragContext) ==
    <<SystemMessage("system_prompt", ragContext, 0)>>
        \o (IF msgs # <<>> /\ msgs[1].type = "system" THEN Tail(msgs) ELSE msgs)

\* chat_agent_node returns {"messages": [response]}
chat_agent_node(response) == [messages |-> <<response>>]

-----------------------------------------------------------------------------
(* Approval Gate: src/utils/approval_node.py                               *)

\* the values a resume hands to interrupt(): True / False, {"approved": True},
\* {"approved": False}, {"approved": <not a bool>}, a string
Decisions ==
    {[kind |-> "bool", approved |-> "true"],
     [kind |-> "bool", approved |-> "false"],
     [kind |-> "dict", approved |-> "true"],
     [kind |-> "dict", approved |-> "false"],
     [kind |-> "dict", approved |-> "other"],
     [kind |-> "str", approved |-> "missing"]}

\* approval_decision is False or (isinstance(dict) and .get("approved") is False)
Rejects(decision) ==
    \/ decision.kind = "bool" /\ decision.approved = "false"
    \/ decision.kind = "dict" /\ decision.approved = "false"

Approves(decision) ==
    \/ decision.kind = "bool" /\ decision.approved = "true"
    \/ decision.kind = "dict" /\ decision.approved = "true"

_build_approval_prompt(tool_calls) ==
    [i \in 1..Len(tool_calls) |->
        [name |-> tool_calls[i].name, args |-> tool_calls[i].args, id |-> tool_calls[i].id]]

\* mutant: the gate interrupts whether it is enabled or not
GateInterrupts_ignores_switch(enabled, msgs) == Last(msgs).tool_calls # <<>>

\* approval_node up to interrupt(): TRUE when the node raises the interrupt
GateInterrupts(enabled, msgs) == enabled /\ Last(msgs).tool_calls # <<>>

RejectionMessage == AIMessage("rejection_directive", <<>>, NoUsage)

\* mutant: only the bare boolean False is taken as a rejection
approval_node_bool_only(decision) ==
    IF decision.kind = "bool" /\ decision.approved = "false"
    THEN <<RejectionMessage>> ELSE <<>>

\* mutant: everything but the bare boolean True is taken as a rejection
approval_node_true_only(decision) ==
    IF decision.kind = "bool" /\ decision.approved = "true"
    THEN <<>> ELSE <<RejectionMessage>>

\* approval_node after interrupt() returned the decision: the messages it returns
approval_node(decision) ==
    IF Rejects(decision) THEN <<RejectionMessage>> ELSE <<>>

-----------------------------------------------------------------------------
(* Retrieval Agent: src/graph/rag_agent_node.py                            *)

NoCall == [found |-> FALSE, query |-> "", id |-> 0]

FirstManual(calls) ==
    LET hits == {i \in 1..Len(calls) : calls[i].name = "search_f150_manual"} IN
        IF hits = {} THEN 0 ELSE CHOOSE i \in hits : \A j \in hits : i <= j

\* _extract_rag_tool_call: newest message with tool calls that holds a manual search
RECURSIVE _extract_rag_tool_call(_)
_extract_rag_tool_call(msgs) ==
    IF msgs = <<>> THEN NoCall
    ELSE LET calls == Last(msgs).tool_calls
             i == FirstManual(calls)
         IN  IF i # 0
             THEN [found |-> TRUE, query |-> calls[i].args, id |-> calls[i].id]
             ELSE _extract_rag_tool_call(SubSeq(msgs, 1, Len(msgs) - 1))

\* what the reformulation call may do: raise, or answer with a body, after a
\* preamble or not
ReformOutcomes ==
    {[raises |-> TRUE, preamble |-> FALSE, body |-> ""],
     [raises |-> FALSE, preamble |-> FALSE, body |-> ""],
     [raises |-> FALSE, preamble |-> FALSE, body |-> "Q"],
     [raises |-> FALSE, preamble |-> FALSE, body |-> "R"],
     [raises |-> FALSE, preamble |-> TRUE, body |-> "R"],
     [raises |-> FALSE, preamble |-> TRUE, body |-> ""]}

\* the reformulation call was not made
NoReform == [raises |-> FALSE, preamble |-> FALSE, body |-> "not called"]

\* mutant: an empty answer of the model is used as the query
_reformulate_query_keeps_empty(query, outcome) ==
    IF outcome.raises THEN query ELSE outcome.body

_reformulate_query(query, outcome) ==
    IF outcome.raises THEN query
    ELSE IF outcome.body = "" THEN query
    ELSE outcome.body

Judgments == {"yes", "no", "raise"}

\* mutant: a document whose judgment call fails is left out
RECURSIVE Accepted_drops_failures(_, _, _)
Accepted_drops_failures(documents, judgment, i) ==
    IF i > Len(documents) THEN <<>>
    ELSE (IF judgment[i] = "yes" THEN <<documents[i]>> ELSE <<>>)
             \o Accepted_drops_failures(documents, judgment, i + 1)

RECURSIVE Accepted(_, _, _)
Accepted(documents, judgment, i) ==
    IF i > Len(documents) THEN <<>>
    ELSE (IF judgment[i] \in {"yes", "raise"} THEN <<documents[i]>> ELSE <<>>)
             \o Accepted(documents, judgment, i + 1)

\* documents[:10] are the ones assessed
Assessed(documents) == SubSeq(documents, 1, Min(MaxAssess, Len(documents)))

NeedsJudgment(documents) == Len(documents) > TrustTopK

\* mutant: every accepted document is returned, without the cut to the top 5
_assess_relevance_no_cap(documents, judgment) ==
    IF documents = <<>> THEN <<>>
    ELSE IF ~NeedsJudgment(documents) THEN documents
    ELSE Accepted(Assessed(documents), judgment, 1)

_assess_relevance(documents, judgment) ==
    IF documents = <<>> THEN <<>>
    ELSE IF ~NeedsJudgment(documents) THEN documents
    ELSE LET relevant == Accepted(Assessed(documents), judgment, 1) IN
             SubSeq(relevant, 1, Min(TopRelevant, Len(relevant)))

JudgedCount(documents) ==
    IF NeedsJudgment(documents) THEN Len(Assessed(documents)) ELSE 0

\* mutant: the page is read under a key the metadata does not have
Excerpt_page_unknown(i, doc) == [i |-> i, page |-> 0, content |-> doc.page_content]

Excerpt(i, doc) == [i |-> i, page |-> doc.page, content |-> doc.page_content]

ContextHeader == [i |-> 0, page |-> 0, content |-> <<"=== RETRIEVED CONTEXT ===", 0>>]

ContextFooter == [i |-> 0, page |-> 0, content |-> <<"=== END OF RETRIEVED CONTEXT ===", 0>>]

_format_rag_context(documents) ==
    IF documents = <<>> THEN <<>>
    ELSE <<ContextHeader>>
            \o [i \in 1..Len(documents) |-> Excerpt(i, documents[i])]
            \o <<ContextFooter>>

\* Step 2 of agentic_rag_node: the search with the reformulated query
FirstSearch(reformulated_query) == [query |-> reformulated_query, k |-> RagFirstK]

\* mutant: the retry is taken only when nothing at all was found
NeedsFallback_only_empty(relevant_docs, reformulated_query, query) ==
    Len(relevant_docs) < 1 /\ reformulated_query # query

\* mutant: the retry does not look at whether the query was reformulated
NeedsFallback_ignores_query(relevant_docs, reformulated_query, query) ==
    Len(relevant_docs) < RagMinRelevant

\* Step 4 of agentic_rag_node: retry with the original query
NeedsFallback(relevant_docs, reformulated_query, query) ==
    Len(relevant_docs) < RagMinRelevant /\ reformulated_query # query

FallbackSearch(query) == [query |-> query, k |-> RagFallbackK]

\* the judgments a result list of n documents asks for
JudgeLen(n) == IF n > TrustTopK THEN Min(MaxAssess, n) ELSE 0

\* mutant: the documents of the retry are added to those of the first search
agentic_rag_node_merging(msgs, outcome, n1, n2, judgment1, judgment2) ==
    LET call == _extract_rag_tool_call(msgs)
        query == call.query
        reformulated_query == _reformulate_query(query, outcome)
        search1 == FirstSearch(reformulated_query)
        results1 == similarity_search(search1.query, search1.k, n1)
        relevant1 == _assess_relevance(results1, judgment1)
        retry == NeedsFallback(relevant1, reformulated_query, query)
        search2 == FallbackSearch(query)
        results2 == similarity_search(search2.query, search2.k, n2)
        relevant_docs == IF retry THEN relevant1 \o _assess_relevance(results2, judgment2)
                         ELSE relevant1
    IN  IF query = ""
        THEN [rag_context |-> <<>>,
              retrieved_documents |-> <<>>,
              messages |-> <<ToolMessage("rag_error_no_query", <<>>, 0, call.id)>>,
              trace |-> [ran |-> TRUE, query |-> "", reformulated |-> "", first |-> 0,
                         searches |-> <<>>, judged |-> 0, reformulations |-> 0,
                         reform |-> NoReform]]
        ELSE [rag_context |-> _format_rag_context(relevant_docs),
              retrieved_documents |-> relevant_docs,
              messages |->
                  <<IF relevant_docs = <<>>
                    THEN ToolMessage("rag_no_relevant", <<>>, 0, call.id)
                    ELSE ToolMessage("rag_count", <<>>, Len(relevant_docs), call.id)>>,
              trace |-> [ran |-> TRUE, query |-> query,
                         reformulated |-> reformulated_query,
                         first |-> Len(relevant1),
                         searches |-> <<search1>> \o (IF retry THEN <<search2>> ELSE <<>>),
                         judged |-> JudgedCount(results1)
                                        + (IF retry THEN JudgedCount(results2) ELSE 0),
                         reformulations |-> 1,
                         reform |-> outcome]]

\* agentic_rag_node (with a loaded vector store): the patch it returns, and the
\* trace of its collaborator calls
agentic_rag_node(msgs, outcome, n1, n2, judgment1, judgment2) ==
    LET call == _extract_rag_tool_call(msgs)
        query == call.query
        reformulated_query == _reformulate_query(query, outcome)
        search1 == FirstSearch(reformulated_query)
        results1 == similarity_search(search1.query, search1.k, n1)
        relevant1 == _assess_relevance(results1, judgment1)
        retry == NeedsFallback(relevant1, reformulated_query, query)
        search2 == FallbackSearch(query)
        results2 == similarity_search(search2.query, search2.k, n2)
        relevant_docs == IF retry THEN _assess_relevance(results2, judgment2) ELSE relevant1
    IN  IF query = ""
        THEN [rag_context |-> <<>>,
              retrieved_documents |-> <<>>,
              messages |-> <<ToolMessage("rag_error_no_query", <<>>, 0, call.id)>>,
              trace |-> [ran |-> TRUE, query |-> "", reformulated |-> "", first |-> 0,
                         searches |-> <<>>, judged |-> 0, reformulations |-> 0,
                         reform |-> NoReform]]
        ELSE [rag_context |-> _format_rag_context(relevant_docs),
              retrieved_documents |-> relevant_docs,
              messages |->
                  <<IF relevant_docs = <<>>
                    THEN ToolMessage("rag_no_relevant", <<>>, 0, call.id)
                    ELSE ToolMessage("rag_count", <<>>, Len(relevant_docs), call.id)>>,
              trace |-> [ran |-> TRUE, query |-> query,
                         reformulated |-> reformulated_query,
                         first |-> Len(relevant1),
                         searches |-> <<search1>> \o (IF retry THEN <<search2>> ELSE <<>>),
                         judged |-> JudgedCount(results1)
                                        + (IF retry THEN JudgedCount(results2) ELSE 0),
                         reformulations |-> 1,
                         reform |-> outcome]]

\* whether the run reaches the second search (bounds the inputs that are drawn)
RagRetries(msgs, outcome, n1) ==
    LET call == _extract_rag_tool_call(msgs)
        reformulated_query == _reformulate_query(call.query, outcome)
        results1 == similarity_search(reformulated_query, FirstSearch(reformulated_query).k, n1)
    IN  /\ call.query # ""
        /\ NeedsFallback(_assess_relevance(results1, <<>>), reformulated_query, call.query)

-----------------------------------------------------------------------------
(* One thread of the compiled graph                                        *)

NoInterrupt == <<>>

NoDecision == [kind |-> "none", approved |-> "missing"]

NoGate == [batch |-> <<>>, decision |-> NoDecision, resumed |-> FALSE]

NoRagRun == [ran |-> FALSE, query |-> "", reformulated |-> "", first |-> 0,
             searches |-> <<>>, judged |-> 0, reformulations |-> 0, reform |-> NoReform]

\* what the user types (main_graph.py reads one line per turn)
UserTexts ==
    {<<"Thanks", "!">>,
     <<"OK", " ", "thanks", ".">>,
     <<"thanks", " ", "what", " ", "is", " ", "fuse", "?">>}

-----------------------------------------------------------------------------
(* OllamaTokenCounter: src/utils/token_counter.py                          *)

\* OllamaTokenCounter(context_limit)
NewCounter(limit) ==
    [context_limit |-> limit, total_tokens |-> 0, total_prompt_tokens |-> 0,
     total_completion_tokens |-> 0, message_history |-> <<>>]

\* the return value None of extract_token_counts
NoCounts == [none |-> TRUE, prompt_tokens |-> 0, completion_tokens |-> 0, total_tokens |-> 0]

\* mutant: a count the message does not report is read as 0
extract_token_counts_defaulting(message) ==
    [none |-> FALSE, prompt_tokens |-> message.usage.p,
     completion_tokens |-> message.usage.c,
     total_tokens |-> message.usage.p + message.usage.c]

\* extract_token_counts(message): reads response_metadata, writes nothing
extract_token_counts(message) ==
    IF ~message.usage.hasP \/ ~message.usage.hasC
    THEN NoCounts
    ELSE [none |-> FALSE, prompt_tokens |-> message.usage.p,
          completion_tokens |-> message.usage.c,
          total_tokens |-> message.usage.p + message.usage.c]

get_context_percentage(cnt) ==
    IF cnt.context_limit = 0 THEN 0 ELSE (cnt.total_tokens * 100) \div cnt.context_limit

\* mutant: the running total is overwritten by the tokens of the interaction
track_interaction_overwrite(cnt, prompt_tokens, completion_tokens) ==
    LET interaction_tokens == prompt_tokens + completion_tokens
        after == [cnt EXCEPT !.total_prompt_tokens = @ + prompt_tokens,
                             !.total_completion_tokens = @ + completion_tokens,
                             !.total_tokens = interaction_tokens]
    IN  [after EXCEPT !.message_history =
            Append(@, [interaction_tokens |-> interaction_tokens,
                       total_tokens |-> after.total_tokens])]

\* track_interaction(prompt_tokens, completion_tokens): the counter afterwards
track_interaction(cnt, prompt_tokens, completion_tokens) ==
    LET interaction_tokens == prompt_tokens + completion_tokens
        after == [cnt EXCEPT !.total_prompt_tokens = @ + prompt_tokens,
                             !.total_completion_tokens = @ + completion_tokens,
                             !.total_tokens = @ + interaction_tokens]
    IN  [after EXCEPT !.message_history =
            Append(@, [interaction_tokens |-> interaction_tokens,
                       total_tokens |-> after.total_tokens])]

get_summary(cnt) ==
    [total_tokens |-> cnt.total_tokens,
     total_prompt_tokens |-> cnt.total_prompt_tokens,
     total_completion_tokens |-> cnt.total_completion_tokens,
     context_limit |-> cnt.context_limit,
     usage_percentage |-> get_context_percentage(cnt),
     total_interactions |-> Len(cnt.message_history)]

NoExtraction == [called |-> FALSE, message |-> HumanMessage(<<>>), counts |-> NoCounts]

\* token_counter = OllamaTokenCounter(context_limit=Config.CONTEXT_LIMIT)
FreshCounter ==
    /\ counter = NewCounter(CONTEXT_LIMIT)
    /\ tracked = <<>>
    /\ extracted = NoExtraction

\* no call of _assess_relevance yet
NoAssess == [called |-> FALSE, documents |-> <<>>, judgment |-> <<>>, result |-> <<>>,
             judged |-> 0]

\* the thread ids under which the checkpointer keeps a conversation
ThreadIds == {1, 2}

\* the checkpoint of a thread nothing was invoked on: the channels of
\* F150StateWithTokens, the node that runs next, the pending interrupt, and
\* (history) the node steps taken on the thread
FreshThread ==
    [messages |-> <<>>, rag_context |-> <<>>, retrieved_documents |-> <<>>,
     total_tokens |-> 0, total_prompt_tokens |-> 0, total_completion_tokens |-> 0,
     context_limit |-> DefaultContextLimit, bypass_agent |-> FALSE,
     next |-> "END", interrupted |-> NoInterrupt, steps |-> 0]

\* checkpointer = InMemorySaver()
FreshSaver ==
    /\ saver = [t \in ThreadIds |-> FreshThread]
    /\ solo = FreshThread

\* what the steps of the single conversation leave alone
outside == <<saver, solo, counter, tracked, extracted, assess>>

\* a conversation nothing was invoked on
InitConversation ==
    /\ messages = <<>>
    /\ rag_context = <<>>
    /\ retrieved_documents = <<>>
    /\ total_tokens = 0
    /\ total_prompt_tokens = 0
    /\ total_completion_tokens = 0
    /\ context_limit = DefaultContextLimit
    /\ bypass_agent = FALSE
    /\ next = "END"
    /\ interrupted = NoInterrupt
    /\ approvalEnabled \in BOOLEAN
    /\ prev = "START"
    /\ turns = 0
    /\ rounds = 0
    /\ nextCallId = 0
    /\ executed = {}
    /\ approvedIds = {}
    /\ llmCalls = 0
    /\ indexQueries = 0
    /\ ragUses = 0
    /\ gate = NoGate
    /\ ragRun = NoRagRun

InitThread ==
    /\ InitConversation
    /\ FreshSaver
    /\ FreshCounter
    /\ assess = NoAssess

Init ==
    /\ InitThread
    /\ trackerLimit = CONTEXT_LIMIT
    /\ indexCap = MaxIndex

config == <<approvalEnabled, trackerLimit, indexCap>>

counters == <<total_tokens, total_prompt_tokens, total_completion_tokens, context_limit>>

ragState == <<rag_context, retrieved_documents>>

\* the traces of the gate and of the Retrieval Agent describe the last step only
Forget == gate' = NoGate /\ ragRun' = NoRagRun

\* agent.invoke({"messages": [HumanMessage(content=user_input)]}, config)
Invoke(text) ==
    /\ next = "END"
    /\ interrupted = NoInterrupt
    /\ turns < MaxTurns
    /\ messages' = AddMessages(messages, <<HumanMessage(text)>>)
    /\ next' = "pre_filter"
    /\ prev' = "START"
    /\ turns' = turns + 1
    /\ llmCalls' = 0
    /\ indexQueries' = 0
    /\ UNCHANGED <<ragState, counters, bypass_agent, interrupted, config, outside, rounds,
                   nextCallId, executed, approvedIds, ragUses>>
    /\ Forget

InvokeStep == \E text \in UserTexts : Invoke(text)

PreFilterStep ==
    /\ next = "pre_filter"
    /\ LET patch == pre_filter_node(messages) IN
        /\ messages' = AddMessages(messages, patch.messages)
        /\ bypass_agent' = patch.bypass_agent
        /\ next' = should_bypass_agent(patch.bypass_agent)
    /\ prev' = "pre_filter"
    /\ UNCHANGED <<ragState, counters, interrupted, config, outside, turns, rounds, nextCallId,
                   executed, approvedIds, llmCalls, indexQueries, ragUses>>
    /\ Forget

\* the agent node of create_f150_graph (call_model)
AgentStep ==
    /\ next = "agent"
    /\ \E response \in LLMResponses(rounds < MaxRounds, trackerLimit, nextCallId) :
        /\ messages' = AddMessages(messages, call_model(response).messages)
        /\ nextCallId' = nextCallId + Len(response.tool_calls)
        /\ rounds' = IF response.tool_calls # <<>> THEN rounds + 1 ELSE rounds
        /\ next' = should_continue(AddMessages(messages, call_model(response).messages))
    /\ prev' = "agent"
    /\ llmCalls' = llmCalls + 1
    /\ UNCHANGED <<ragState, counters, bypass_agent, interrupted, config, outside, turns,
                   executed, approvedIds, indexQueries, ragUses>>
    /\ Forget

HasCall(calls, name) == \E i \in 1..Len(calls) : calls[i].name = name

\* mutant: the tools node is wired to the tracker instead of back to the agent
EdgeAfterTools_skips_agent == "token_tracker"

\* workflow.add_edge("tools", "agent")
EdgeAfterTools == "agent"

\* workflow.add_edge("token_tracker", END)
EdgeAfterTracker == "END"

\* the tools node of create_f150_graph (ToolNode(tools)), then the edge back to agent
ToolsStep ==
    /\ next = "tools"
    /\ \E n \in 0..Min(ManualSearchK, indexCap), outcome \in WebOutcomes :
        messages' = AddMessages(messages, ToolNode(messages, n, outcome))
    /\ executed' = executed \cup CallIds(Last(messages).tool_calls)
    /\ indexQueries' = indexQueries
           + Cardinality({i \in 1..Len(Last(messages).tool_calls) :
                            Last(messages).tool_calls[i].name = "search_f150_manual"})
    /\ next' = EdgeAfterTools
    /\ prev' = "tools"
    /\ UNCHANGED <<ragState, counters, bypass_agent, interrupted, config, outside, turns, rounds,
                   nextCallId, approvedIds, llmCalls, ragUses>>
    /\ Forget

TokenTrackerStep ==
    /\ next = "token_tracker"
    /\ LET patch == token_tracking_node(messages, total_prompt_tokens,
                                        total_completion_tokens, trackerLimit) IN
        IF patch.empty
        THEN UNCHANGED <<messages, counters>>
        ELSE /\ messages' = AddMessages(messages, patch.messages)
             /\ total_prompt_tokens' = patch.total_prompt_tokens
             /\ total_completion_tokens' = patch.total_completion_tokens
             /\ total_tokens' = patch.total_tokens
             /\ context_limit' = patch.context_limit
    /\ next' = EdgeAfterTracker
    /\ prev' = "token_tracker"
    /\ UNCHANGED <<ragState, bypass_agent, interrupted, config, outside, turns, rounds, nextCallId,
                   executed, approvedIds, llmCalls, indexQueries, ragUses>>
    /\ Forget

Next ==
    \/ InvokeStep
    \/ PreFilterStep
    \/ AgentStep
    \/ ToolsStep
    \/ TokenTrackerStep

Spec == Init /\ [][Next]_vars

\* a node that is routed to runs: graph.invoke executes the traversal
\* synchronously until it reaches END, and every collaborator call returns
NodeStep ==
    \/ PreFilterStep
    \/ AgentStep
    \/ ToolsStep
    \/ TokenTrackerStep

\* one traversal, of the first turn of a thread
FirstInvokeStep == turns = 0 /\ InvokeStep

NextFair ==
    \/ FirstInvokeStep
    \/ NodeStep

SpecFair == Init /\ [][NextFair]_vars /\ WF_vars(NodeStep)

\* the same graph, its tracker created with the 1000-token limit of scenario D
InitScenario ==
    /\ InitThread
    /\ trackerLimit = ScenarioLimit
    /\ indexCap = MaxIndex

SpecScenario == InitScenario /\ [][Next]_vars

-----------------------------------------------------------------------------
(* The dual-context nodes, wired as section 4.3 of the design routes them  *)

RouteAfterAgent(msgs) ==
    IF Last(msgs).tool_calls # <<>> THEN "approval_gate" ELSE "token_tracker"

RouteAfterGate(msgs) ==
    IF Last(msgs).tool_calls = <<>> THEN "agent"
    ELSE IF HasCall(Last(msgs).tool_calls, "search_f150_manual") THEN "rag_agent"
    ELSE "tools"

InitDual == InitScenario

\* chat_agent_node: prompt from the history and rag_context, one completion call
ChatAgentStep ==
    /\ next = "agent"
    /\ LET prompt_messages == _build_chat_prompt(messages, rag_context) IN
        ragUses' = IF prompt_messages[1].docs # <<>> THEN ragUses + 1 ELSE ragUses
    /\ \E response \in LLMResponses(rounds < MaxRounds, trackerLimit, nextCallId) :
        /\ messages' = AddMessages(messages, chat_agent_node(response).messages)
        /\ nextCallId' = nextCallId + Len(response.tool_calls)
        /\ rounds' = IF response.tool_calls # <<>> THEN rounds + 1 ELSE rounds
        /\ next' = RouteAfterAgent(AddMessages(messages, chat_agent_node(response).messages))
    /\ prev' = "agent"
    /\ llmCalls' = llmCalls + 1
    /\ UNCHANGED <<ragState, counters, bypass_agent, interrupted, config, outside, turns,
                   executed, approvedIds, indexQueries>>
    /\ Forget

\* approval_node, first execution: pass through or raise the interrupt
GateStep ==
    /\ next = "approval_gate"
    /\ interrupted = NoInterrupt
    /\ IF GateInterrupts(approvalEnabled, messages)
       THEN /\ interrupted' = _build_approval_prompt(Last(messages).tool_calls)
            /\ gate' = [batch |-> Last(messages).tool_calls, decision |-> NoDecision,
                        resumed |-> FALSE]
            /\ next' = next
       ELSE /\ interrupted' = interrupted
            /\ gate' = NoGate
            /\ next' = RouteAfterGate(messages)
    /\ prev' = "approval_gate"
    /\ ragRun' = NoRagRun
    /\ UNCHANGED <<messages, ragState, counters, bypass_agent, config, outside, turns, rounds,
                   nextCallId, executed, approvedIds, llmCalls, indexQueries, ragUses>>

\* agent.invoke(Command(resume=decision), config): approval_node runs again and
\* interrupt() returns the decision
Resume(decision) ==
    /\ interrupted # NoInterrupt
    /\ messages' = AddMessages(messages, approval_node(decision))
    /\ interrupted' = NoInterrupt
    /\ approvedIds' = IF Approves(decision)
                      THEN approvedIds \cup CallIds(Last(messages).tool_calls)
                      ELSE approvedIds
    /\ gate' = [batch |-> Last(messages).tool_calls, decision |-> decision,
                resumed |-> TRUE]
    /\ next' = RouteAfterGate(AddMessages(messages, approval_node(decision)))
    /\ prev' = "approval_gate"
    /\ ragRun' = NoRagRun
    /\ UNCHANGED <<ragState, counters, bypass_agent, config, outside, turns, rounds, nextCallId,
                   executed, llmCalls, indexQueries, ragUses>>

ResumeStep == \E decision \in Decisions : Resume(decision)

\* agentic_rag_node, then the edge back to the agent
RagStep ==
    /\ next = "rag_agent"
    /\ \E outcome \in ReformOutcomes, n1 \in 0..Min(RagFirstK, indexCap) :
       \E n2 \in (IF RagRetries(messages, outcome, n1)
                  THEN 0..Min(RagFallbackK, indexCap) ELSE {0}) :
       \E judgment1 \in [1..JudgeLen(n1) -> Judgments],
          judgment2 \in [1..JudgeLen(n2) -> Judgments] :
           LET patch == agentic_rag_node(messages, outcome, n1, n2, judgment1, judgment2) IN
               /\ messages' = AddMessages(messages, patch.messages)
               /\ rag_context' = patch.rag_context
               /\ retrieved_documents' = patch.retrieved_documents
               /\ ragRun' = patch.trace
               /\ indexQueries' = indexQueries + Len(patch.trace.searches)
               /\ llmCalls' = llmCalls + patch.trace.reformulations + patch.trace.judged
               /\ executed' = executed \cup {patch.messages[1].tool_call_id}
    /\ ragUses' = 0
    /\ gate' = NoGate
    /\ next' = "agent"
    /\ prev' = "rag_agent"
    /\ UNCHANGED <<counters, bypass_agent, interrupted, config, outside, turns, rounds, nextCallId,
                   approvedIds>>

NextDual ==
    \/ InvokeStep
    \/ PreFilterStep
    \/ ChatAgentStep
    \/ GateStep
    \/ ResumeStep
    \/ RagStep
    \/ ToolsStep
    \/ TokenTrackerStep

SpecDual == InitDual /\ [][NextDual]_vars

\* every node of the dual-context graph, on the traversal of a thread's first turn
NextNodes ==
    \/ FirstInvokeStep
    \/ PreFilterStep
    \/ ChatAgentStep
    \/ GateStep
    \/ ResumeStep
    \/ RagStep
    \/ ToolsStep
    \/ TokenTrackerStep

SpecNodes == InitDual /\ [][NextNodes]_vars

\* the approval loop alone: Orchestrator, Approval Gate and resume, up to the
\* hand-over of an approved batch to the node that executes it
NextGate ==
    \/ InvokeStep
    \/ PreFilterStep
    \/ ChatAgentStep
    \/ GateStep
    \/ ResumeStep
    \/ TokenTrackerStep

SpecGate == InitDual /\ [][NextGate]_vars

-----------------------------------------------------------------------------
(* Single runs of the Approval Gate on any last turn, enabled or not       *)

InitGateRuns ==
    /\ \E text \in UserTexts, response \in LLMResponses(TRUE, ScenarioLimit, 0) :
        messages = <<HumanMessage(text), response>>
    /\ rag_context = <<>>
    /\ retrieved_documents = <<>>
    /\ total_tokens = 0
    /\ total_prompt_tokens = 0
    /\ total_completion_tokens = 0
    /\ context_limit = DefaultContextLimit
    /\ bypass_agent = FALSE
    /\ next = "approval_gate"
    /\ interrupted = NoInterrupt
    /\ approvalEnabled \in BOOLEAN
    /\ trackerLimit = ScenarioLimit
    /\ indexCap = MaxIndex
    /\ prev = "agent"
    /\ turns = 1
    /\ rounds = IF Last(messages).tool_calls # <<>> THEN 1 ELSE 0
    /\ nextCallId = Len(Last(messages).tool_calls)
    /\ executed = {}
    /\ approvedIds = {}
    /\ llmCalls = 1
    /\ indexQueries = 0
    /\ ragUses = 0
    /\ gate = NoGate
    /\ ragRun = NoRagRun
    /\ FreshSaver
    /\ FreshCounter
    /\ assess = NoAssess

NextGateRuns ==
    \/ GateStep
    \/ ResumeStep

SpecGateRuns == InitGateRuns /\ [][NextGateRuns]_vars

-----------------------------------------------------------------------------
(* Single runs of the Retrieval Agent on a pending manual search           *)

RagBatches == {b \in Batches : HasCall(b, "search_f150_manual")}

\* the state in which agentic_rag_node is entered on a history, the index
\* holding cap passages that match
RagEntryWith(history, cap) ==
    /\ messages = history
    /\ rag_context = <<>>
    /\ retrieved_documents = <<>>
    /\ total_tokens = 0
    /\ total_prompt_tokens = 0
    /\ total_completion_tokens = 0
    /\ context_limit = DefaultContextLimit
    /\ bypass_agent = FALSE
    /\ next = "rag_agent"
    /\ interrupted = NoInterrupt
    /\ approvalEnabled = FALSE
    /\ trackerLimit = ScenarioLimit
    /\ indexCap = cap
    /\ prev = "approval_gate"
    /\ turns = 1
    /\ rounds = 0
    /\ nextCallId = IssuedIds(history)
    /\ executed = {}
    /\ approvedIds = {}
    /\ llmCalls = 1
    /\ indexQueries = 0
    /\ ragUses = 0
    /\ gate = NoGate
    /\ ragRun = NoRagRun
    /\ FreshSaver
    /\ FreshCounter
    /\ assess = NoAssess

\* an index that yields up to MaxRagIndex hits
RagEntry(history) == RagEntryWith(history, MaxRagIndex)

InitRag ==
    \E b \in RagBatches, text \in UserTexts, u \in ToolUsages(ScenarioLimit) :
        RagEntry(<<HumanMessage(text), AIMessage("tool_request", WithIds(b, 0), u)>>)

NextRag == RagStep

SpecRag == InitRag /\ [][NextRag]_vars

\* the same runs on one pending manual search, with an index that fills the
\* k = 8 of the fallback search
InitRagFull ==
    \E text \in UserTexts, u \in ToolUsages(ScenarioLimit) :
        RagEntryWith(<<HumanMessage(text),
                       AIMessage("tool_request",
                                 WithIds(<<Call("search_f150_manual", "Q")>>, 0), u)>>,
                     RagFallbackK)

SpecRagFull == InitRagFull /\ [][NextRag]_vars

-----------------------------------------------------------------------------
(* Single runs of the Retrieval Agent on any last turn: in the first turn   *)
(* of a conversation, or in the second after a manual search that was      *)
(* answered in the first                                                    *)

FirstTurn(text) ==
    <<HumanMessage(text),
      AIMessage("tool_request", WithIds(<<Call("search_f150_manual", "Q")>>, 0),
                Usage(Pct(ScenarioLimit, 15), Pct(ScenarioLimit, 5))),
      ToolMessage("rag_count", <<>>, 3, 1),
      AIMessage("answer", <<>>, NoUsage)>>

InitRagAny ==
    \E b \in Batches, text \in UserTexts, u \in ToolUsages(ScenarioLimit) :
        \/ RagEntry(<<HumanMessage(text), AIMessage("tool_request", WithIds(b, 0), u)>>)
        \/ RagEntry(FirstTurn(text)
                      \o <<HumanMessage(text), AIMessage("tool_request", WithIds(b, 1), u)>>)

SpecRagAny == InitRagAny /\ [][NextRag]_vars

-----------------------------------------------------------------------------
(* Single runs of the tools node, the services behind the tools failing or *)
(* not                                                                     *)

\* what a tool invocation gives back: a return value or an exception
Raised == [raised |-> TRUE, message |-> ToolMessage("none", <<>>, 0, 0)]

Returned(message) == [raised |-> FALSE, message |-> message]

\* _vector_store.similarity_search: raises (index or embedding service failure)
\* or returns up to cap hits
IndexOutcomes(cap) ==
    {[raises |-> TRUE, n |-> 0]} \cup {[raises |-> FALSE, n |-> n] : n \in 0..Min(ManualSearchK, cap)}

\* search_f150_manual: similarity_search is called outside any try block
RunManualSearch(question, index, callId) ==
    IF index.raises
    THEN Raised
    ELSE Returned(search_f150_manual(question, index.n, callId))

\* search_web: ValueError and Exception are caught and returned as strings
RunWebSearch(query, outcome, callId) == Returned(search_web(query, outcome, callId))

RunTool(call, index, outcome) ==
    IF call.name = "search_f150_manual"
    THEN RunManualSearch(call.args, index, call.id)
    ELSE RunWebSearch(call.args, outcome, call.id)

\* the kinds of tool-result the tools themselves return
ToolResultKinds == WebOutcomes \cup {"manual_sections", "manual_no_results"}

\* ToolNode(tools) on a batch: handles is whether the installed ToolNode turns
\* an exception of a tool into an error ToolMessage or lets it propagate
ToolNodeRun(msgs, index, outcome, handles) ==
    LET calls == Last(msgs).tool_calls
        runs == [i \in 1..Len(calls) |-> RunTool(calls[i], index, outcome)]
        failed == \E i \in 1..Len(calls) : runs[i].raised
    IN  IF failed /\ ~handles
        THEN [raised |-> TRUE, messages |-> <<>>]
        ELSE [raised |-> FALSE,
              messages |-> [i \in 1..Len(calls) |->
                              IF runs[i].raised
                              THEN ToolMessage("toolnode_error", <<>>, 0, calls[i].id)
                              ELSE runs[i].message]]

InitTools ==
    /\ \E b \in Batches, text \in UserTexts, u \in ToolUsages(CONTEXT_LIMIT) :
        messages = <<HumanMessage(text), AIMessage("tool_request", WithIds(b, 0), u)>>
    /\ rag_context = <<>>
    /\ retrieved_documents = <<>>
    /\ total_tokens = 0
    /\ total_prompt_tokens = 0
    /\ total_completion_tokens = 0
    /\ context_limit = DefaultContextLimit
    /\ bypass_agent = FALSE
    /\ next = "tools"
    /\ interrupted = NoInterrupt
    /\ approvalEnabled = FALSE
    /\ trackerLimit = CONTEXT_LIMIT
    /\ indexCap = MaxRagIndex
    /\ prev = "agent"
    /\ turns = 1
    /\ rounds = 1
    /\ nextCallId = Len(Last(messages).tool_calls)
    /\ executed = {}
    /\ approvedIds = {}
    /\ llmCalls = 1
    /\ indexQueries = 0
    /\ ragUses = 0
    /\ gate = NoGate
    /\ ragRun = NoRagRun
    /\ FreshSaver
    /\ FreshCounter
    /\ assess = NoAssess

\* the tools node; an exception that leaves ToolNode leaves agent.invoke, and
\* the traversal stops there ("ERROR")
ToolsRunStep ==
    /\ next = "tools"
    /\ \E index \in IndexOutcomes(indexCap), outcome \in WebOutcomes, handles \in BOOLEAN :
        LET run == ToolNodeRun(messages, index, outcome, handles) IN
            /\ messages' = AddMessages(messages, run.messages)
            /\ next' = IF run.raised THEN "ERROR" ELSE EdgeAfterTools
    /\ executed' = executed \cup CallIds(Last(messages).tool_calls)
    /\ indexQueries' = indexQueries
           + Cardinality({i \in 1..Len(Last(messages).tool_calls) :
                            Last(messages).tool_calls[i].name = "search_f150_manual"})
    /\ prev' = "tools"
    /\ UNCHANGED <<ragState, counters, bypass_agent, interrupted, config, outside, turns, rounds,
                   nextCallId, approvedIds, llmCalls, ragUses>>
    /\ Forget

NextTools == ToolsRunStep

SpecTools == InitTools /\ [][NextTools]_vars

-----------------------------------------------------------------------------
(* Two threads of one compiled graph. The checkpointer keeps one checkpoint *)
(* per thread_id; the nodes are the closures of create_f150_graph, which    *)
(* share the llm, the vector store (indexCap) and the tracker's limit.      *)
(* Thread 1 takes every input; thread 2 runs next to it on fixed inputs.    *)

\* mutant: every invoke is keyed with the same thread_id
ThreadKey_constant(t) == 1

\* config = {"configurable": {"thread_id": ...}}: the checkpoint a call works on
ThreadKey(t) == t

\* agent.invoke({"messages": [HumanMessage(content=user_input)]}, config)
ThreadInvoke(th, text) ==
    [th EXCEPT !.messages = AddMessages(@, <<HumanMessage(text)>>),
               !.next = "pre_filter"]

ThreadPreFilter(th) ==
    LET patch == pre_filter_node(th.messages) IN
        [th EXCEPT !.messages = AddMessages(@, patch.messages),
                   !.bypass_agent = patch.bypass_agent,
                   !.next = should_bypass_agent(patch.bypass_agent)]

ThreadAgent(th, response) ==
    [th EXCEPT !.messages = AddMessages(@, call_model(response).messages),
               !.next = should_continue(AddMessages(th.messages,
                                                    call_model(response).messages))]

ThreadTools(th, n, outcome) ==
    [th EXCEPT !.messages = AddMessages(@, ToolNode(th.messages, n, outcome)),
               !.next = EdgeAfterTools]

ThreadTracker(th, limit) ==
    LET patch == token_tracking_node(th.messages, th.total_prompt_tokens,
                                     th.total_completion_tokens, limit) IN
        IF patch.empty
        THEN [th EXCEPT !.next = EdgeAfterTracker]
        ELSE [th EXCEPT !.messages = AddMessages(@, patch.messages),
                        !.total_prompt_tokens = patch.total_prompt_tokens,
                        !.total_completion_tokens = patch.total_completion_tokens,
                        !.total_tokens = patch.total_tokens,
                        !.context_limit = patch.context_limit,
                        !.next = EdgeAfterTracker]

\* what a step takes from outside the thread: the user's line, the Completion
\* Service's response, the hits of the index, the outcome of the web search
ThreadInput(text, response, n, outcome) ==
    [text |-> text, response |-> response, n |-> n, outcome |-> outcome]

NoAnswer == AIMessage("answer", <<>>, NoUsage)

ThreadInputs(t, th, limit, cap) ==
    IF th.next = "END"
    THEN {ThreadInput(text, NoAnswer, 0, "web_results") :
            text \in IF t = 1 THEN UserTexts
                     ELSE {<<"thanks", " ", "what", " ", "is", " ", "fuse", "?">>}}
    ELSE IF th.next = "agent"
    THEN {ThreadInput(<<>>, response, 0, "web_results") :
            response \in
                IF t = 1 THEN LLMResponses(TRUE, limit, IssuedIds(th.messages))
                ELSE {AIMessage("answer", <<>>, Usage(Pct(limit, 60), Pct(limit, 15))),
                      AIMessage("tool_request",
                                WithIds(<<Call("search_f150_manual", "Q"),
                                          Call("search_web", "Q")>>,
                                        IssuedIds(th.messages)),
                                Usage(Pct(limit, 15), Pct(limit, 5)))}}
    ELSE IF th.next = "tools"
    THEN {ThreadInput(<<>>, NoAnswer, n, outcome) :
            n \in IF t = 1 THEN 0..Min(ManualSearchK, cap) ELSE {Min(ManualSearchK, cap)},
            outcome \in IF t = 1 THEN WebOutcomes ELSE {"web_results"}}
    ELSE {ThreadInput(<<>>, NoAnswer, 0, "web_results")}

\* one node step on a checkpoint
ThreadStep(th, input, limit) ==
    LET after ==
            IF th.next = "END" THEN ThreadInvoke(th, input.text)
            ELSE IF th.next = "pre_filter" THEN ThreadPreFilter(th)
            ELSE IF th.next = "agent" THEN ThreadAgent(th, input.response)
            ELSE IF th.next = "tools" THEN ThreadTools(th, input.n, input.outcome)
            ELSE ThreadTracker(th, limit)
    IN  [after EXCEPT !.steps = @ + 1]

InitThreads ==
    /\ Init
    /\ approvalEnabled = FALSE

\* a step of thread t: the checkpoint under its key is loaded, the node runs,
\* the checkpoint is written back under the same key
ThreadAct(t) ==
    LET key == ThreadKey(t)
        th == saver[key]
    IN  /\ th.steps < MaxThreadSteps
        /\ \E input \in ThreadInputs(t, th, trackerLimit, indexCap) :
            /\ saver' = [saver EXCEPT ![key] = ThreadStep(th, input, trackerLimit)]
            /\ solo' = IF t = 1 THEN ThreadStep(solo, input, trackerLimit) ELSE solo
        /\ UNCHANGED <<state, next, interrupted, config, prev, turns, rounds, nextCallId,
                       executed, approvedIds, llmCalls, indexQueries, ragUses, gate,
                       ragRun, counter, tracked, extracted, assess>>

NextThreads == \E t \in ThreadIds : ThreadAct(t)

SpecThreads == InitThreads /\ [][NextThreads]_vars

-----------------------------------------------------------------------------
(* The OllamaTokenCounter on its own: calls of track_interaction and of     *)
(* extract_token_counts in any order.                                       *)

\* token counts a call may be given
TokenCounts == {0, 7, 20}

\* the messages extract_token_counts is given
CounterMessages ==
    {HumanMessage(<<"Thanks", "!">>)}
    \cup {AIMessage("answer", <<>>, u) :
            u \in FinalUsages(ScenarioLimit)
                  \cup {Usage(0, 0), Usage(0, 7),
                        [hasP |-> FALSE, p |-> 0, hasC |-> TRUE, c |-> 7]}}

InitCounter ==
    /\ Init
    /\ approvalEnabled = FALSE

TrackInteractionStep ==
    /\ Len(tracked) < MaxInteractions
    /\ \E p \in TokenCounts, c \in TokenCounts :
        /\ counter' = track_interaction(counter, p, c)
        /\ tracked' = Append(tracked, <<p, c>>)
    /\ UNCHANGED <<state, next, interrupted, config, prev, turns, rounds, nextCallId,
                   executed, approvedIds, llmCalls, indexQueries, ragUses, gate,
                   ragRun, saver, solo, extracted, assess>>

ExtractStep ==
    /\ \E message \in CounterMessages :
        extracted' = [called |-> TRUE, message |-> message,
                      counts |-> extract_token_counts(message)]
    /\ UNCHANGED <<state, next, interrupted, config, prev, turns, rounds, nextCallId,
                   executed, approvedIds, llmCalls, indexQueries, ragUses, gate,
                   ragRun, saver, solo, counter, tracked, assess>>

NextCounter ==
    \/ TrackInteractionStep
    \/ ExtractStep

SpecCounter == InitCounter /\ [][NextCounter]_vars

-----------------------------------------------------------------------------
(* _assess_relevance on its own: a ranked result list of any length up to   *)
(* MaxDocs and the judgments the Completion Service gives on it.            *)

RankedList(n) == [i \in 1..n |-> Document("Q", i)]

InitAssess ==
    /\ InitConversation
    /\ approvalEnabled = FALSE
    /\ trackerLimit = CONTEXT_LIMIT
    /\ indexCap = MaxIndex
    /\ FreshSaver
    /\ FreshCounter
    /\ \E n \in 0..MaxDocs :
       \E judgment \in [1..JudgeLen(n) -> Judgments] :
           assess = [NoAssess EXCEPT !.documents = RankedList(n), !.judgment = judgment]

AssessStep ==
    /\ ~assess.called
    /\ assess' = [assess EXCEPT
                    !.called = TRUE,
                    !.result = _assess_relevance(assess.documents, assess.judgment),
                    !.judged = JudgedCount(assess.documents)]
    /\ UNCHANGED <<state, next, interrupted, config, prev, turns, rounds, nextCallId,
                   executed, approvedIds, llmCalls, indexQueries, ragUses, gate,
                   ragRun, saver, solo, counter, tracked, extracted>>

NextAssess == AssessStep

SpecAssess == InitAssess /\ [][NextAssess]_vars

-----------------------------------------------------------------------------
(* The Pre-Filter on one user turn of any text over a small vocabulary     *)

MaxTextLen == 4

FilterTokens == {"Thanks", "OK", "hi", "thank", "you", "fuse", " ", "!", "."}

RECURSIVE TextsOfLen(_)
TextsOfLen(n) ==
    IF n = 0 THEN {<<>>}
    ELSE {Append(t, k) : t \in TextsOfLen(n - 1), k \in FilterTokens}

\* user_input, which main_graph.py passes on only when it is not blank
FilterTexts == {t \in UNION {TextsOfLen(n) : n \in 1..MaxTextLen} : Strip(t) # <<>>}

FilterInvokeStep == turns = 0 /\ \E text \in FilterTexts : Invoke(text)

NextFilter ==
    \/ FilterInvokeStep
    \/ PreFilterStep

SpecFilter == Init /\ [][NextFilter]_vars

-----------------------------------------------------------------------------
(* The Context Tracker of the graph and the OllamaTokenCounter of main.py   *)
(* on the same assistant turns                                               *)

MaxAssistantTurns == 3

\* the final assistant turns of the traversals, with every shape of usage metadata
AssistantTurns == {m \in CounterMessages : m.type = "ai"}

\* one assistant turn, given to token_tracking_node as the last message of the
\* log and to the counter the way main.py does
BothTrackStep ==
    /\ turns < MaxAssistantTurns
    /\ \E message \in AssistantTurns :
        LET log == AddMessages(messages, <<message>>)
            patch == token_tracking_node(log, total_prompt_tokens,
                                         total_completion_tokens, trackerLimit)
            token_counts == extract_token_counts(message)
        IN  /\ IF patch.empty
               THEN messages' = log /\ UNCHANGED counters
               ELSE /\ messages' = AddMessages(log, patch.messages)
                    /\ total_prompt_tokens' = patch.total_prompt_tokens
                    /\ total_completion_tokens' = patch.total_completion_tokens
                    /\ total_tokens' = patch.total_tokens
                    /\ context_limit' = patch.context_limit
            /\ extracted' = [called |-> TRUE, message |-> message, counts |-> token_counts]
            /\ counter' = IF token_counts.none THEN counter
                          ELSE track_interaction(counter, token_counts.prompt_tokens,
                                                 token_counts.completion_tokens)
    /\ turns' = turns + 1
    /\ UNCHANGED <<ragState, bypass_agent, next, interrupted, config, prev, rounds,
                   nextCallId, executed, approvedIds, llmCalls, indexQueries, ragUses,
                   gate, ragRun, saver, solo, tracked, assess>>

NextBoth == BothTrackStep

SpecBoth == InitCounter /\ [][NextBoth]_vars

-----------------------------------------------------------------------------
(* Properties                                                              *)

\* C1: with the Approval Gate enabled, no tool call is executed unless the
\* thread was suspended at the gate on that call and resumed with an approving
\* decision.
C1_NoToolWithoutApproval == approvalEnabled => executed \subseteq approvedIds

\* C2: after every Orchestrator step the next node is the Approval Gate when the
\* last turn carries tool calls, and the Context Tracker otherwise.
C2_AgentRoutesToGate ==
    prev = "agent" =>
        next = (IF Last(messages).tool_calls # <<>> THEN "approval_gate"
                ELSE "token_tracker")

\* C3: no element of messages carries retrieved document text; the tool-result
\* turn of a manual search carries none.
C3_NoRetrievalTextInMessages ==
    \A i \in 1..Len(messages) : messages[i].docs = <<>>

\* C4: the rag_context written by one Retrieval Agent run is part of the prompt
\* of at most one Orchestrator invocation.
C4_RagContextUsedOnce == ragUses <= 1

CannedKinds == Range(ResponseKeywords) \cup {"default"}

\* C5: on a user turn that matches the conversational taxonomy the Pre-Filter
\* sets bypass_agent, appends one canned assistant reply and the traversal ends
\* there: no completion or retrieval call, token counters unchanged.
C5_ConversationalBypass ==
    [][(/\ next = "pre_filter"
        /\ LastHuman(messages) # 0
        /\ is_conversational_only(messages[LastHuman(messages)].text))
       => (/\ bypass_agent'
           /\ next' = "END"
           /\ Len(messages') = Len(messages) + 1
           /\ SubSeq(messages', 1, Len(messages)) = messages
           /\ Last(messages').type = "ai"
           /\ Last(messages').kind \in CannedKinds
           /\ Last(messages').tool_calls = <<>>
           /\ llmCalls' = 0
           /\ indexQueries' = 0
           /\ UNCHANGED <<total_tokens, total_prompt_tokens, total_completion_tokens>>)]_vars

C5_Witness ==
    /\ prev = "pre_filter"
    /\ next = "END"
    /\ bypass_agent
    /\ turns = 2
    /\ total_tokens > 0
    /\ Last(messages).kind \in CannedKinds

\* C6: a rejecting decision on a batch of K >= 1 tool calls leaves none of them
\* pending, an approving decision leaves all K pending; never a part of the batch.
C6_BatchAtomic ==
    (prev = "approval_gate" /\ gate.resumed) =>
        LET pending == Last(messages).tool_calls IN
            /\ Len(gate.batch) >= 1
            /\ pending \in {<<>>, gate.batch}
            /\ Rejects(gate.decision) => pending = <<>>
            /\ Approves(gate.decision) => pending = gate.batch

C6_Witness ==
    /\ prev = "approval_gate"
    /\ gate.resumed
    /\ gate.decision = [kind |-> "dict", approved |-> "false"]
    /\ Len(gate.batch) = 2
    /\ Last(messages).tool_calls = <<>>

\* C7: in one Retrieval Agent run the index is queried at most twice; when the
\* first search leaves 0 or 1 relevant documents and the reformulated query
\* differs from the original, the second query is the original one with k = 8.
C7_FallbackOnce ==
    (ragRun.ran /\ ragRun.query # "") =>
        /\ Len(ragRun.searches) \in {1, 2}
        /\ indexQueries = Len(ragRun.searches)
        /\ ragRun.searches[1] = [query |-> ragRun.reformulated, k |-> 5]
        /\ (ragRun.first < 2 /\ ragRun.reformulated # ragRun.query) =>
               /\ Len(ragRun.searches) = 2
               /\ ragRun.searches[2] = [query |-> ragRun.query, k |-> 8]

C7_Witness ==
    /\ ragRun.ran
    /\ ragRun.first = 1
    /\ ragRun.reformulated # ragRun.query
    /\ Len(ragRun.searches) = 2
    /\ Len(retrieved_documents) = 5

\* C8: total_tokens, total_prompt_tokens and total_completion_tokens never
\* decrease.
C8_CountersMonotonic ==
    [][/\ total_tokens' >= total_tokens
       /\ total_prompt_tokens' >= total_prompt_tokens
       /\ total_completion_tokens' >= total_completion_tokens]_vars

C8_Witness ==
    /\ prev = "token_tracker"
    /\ turns = 2
    /\ total_prompt_tokens = Pct(trackerLimit, 80)
    /\ total_completion_tokens = Pct(trackerLimit, 15)

\* C9: with a context limit of 1000 tokens, a Context Tracker update that takes
\* the total across 80% (and not to 95%) appends exactly one advisory, a warning;
\* one that takes it across 95% appends exactly one advisory, a critical one.
C9_OneAdvisoryPerCrossing ==
    [][(trackerLimit = 1000 /\ total_tokens' # total_tokens) =>
        LET added == SubSeq(messages', Len(messages) + 1, Len(messages')) IN
            /\ SubSeq(messages', 1, Len(messages)) = messages
            /\ (total_tokens < 800 /\ total_tokens' >= 800 /\ total_tokens' < 950) =>
                   (Len(added) = 1 /\ added[1].type = "system" /\ added[1].kind = "warning")
            /\ (total_tokens < 950 /\ total_tokens' >= 950) =>
                   (Len(added) = 1 /\ added[1].type = "system" /\ added[1].kind = "critical")]_vars

C9_Witness ==
    /\ prev = "token_tracker"
    /\ trackerLimit = 1000
    /\ total_tokens = 950
    /\ Last(messages).kind = "critical"
    /\ \E i \in 1..Len(messages) : messages[i].kind = "moderate"

\* C10: the Context Tracker appends an advisory only in the warning or critical
\* band; below 80% usage it leaves messages unchanged.
C10_NoAdvisoryBelowWarning ==
    [][(next = "token_tracker" /\ total_tokens' * 100 < 80 * trackerLimit) =>
           messages' = messages]_vars

\* C11: when the most recent assistant turn carries no token counts, the Context
\* Tracker step changes nothing: counters, context_limit and messages stay as
\* they were and no advisory is appended.
C11_NoCountsNoUpdate ==
    [][(/\ next = "token_tracker"
        /\ LastAI(messages) # 0
        /\ ~messages[LastAI(messages)].usage.hasP
        /\ ~messages[LastAI(messages)].usage.hasC)
       => (/\ messages' = messages
           /\ UNCHANGED <<total_tokens, total_prompt_tokens, total_completion_tokens,
                          context_limit>>)]_vars

C11_Witness ==
    /\ prev = "token_tracker"
    /\ turns = 2
    /\ Last(messages).type = "ai"
    /\ Last(messages).usage = NoUsage
    /\ total_tokens = Pct(trackerLimit, 60)

\* a decision that is neither a boolean nor {approved: bool}
Malformed(decision) == ~Rejects(decision) /\ ~Approves(decision)

C14_RouteAfterGate ==
    LET pending == IF messages = <<>> THEN <<>> ELSE Last(messages).tool_calls IN
        /\ (prev = "approval_gate" /\ interrupted = NoInterrupt) =>
               next = (IF pending = <<>> THEN "agent"
                       ELSE IF HasCall(pending, "search_f150_manual") THEN "rag_agent"
                       ELSE "tools")
        /\ next = "tools" => ~HasCall(pending, "search_f150_manual")

ResultsFor(msgs, id) ==
    {j \in 1..Len(msgs) : msgs[j].type = "tool" /\ msgs[j].tool_call_id = id}

\* C16: whenever the Orchestrator is about to run, every tool call of an
\* assistant turn in messages has exactly one tool-result turn with its id, and
\* that turn comes after the assistant turn.
C16_EveryCallAnswered ==
    next = "agent" =>
        \A i \in 1..Len(messages) :
            \A c \in 1..Len(messages[i].tool_calls) :
                LET results == ResultsFor(messages, messages[i].tool_calls[c].id) IN
                    /\ Cardinality(results) = 1
                    /\ \A j \in results : j > i

\* C17: a failure of the service behind a tool never raises out of the tool:
\* after the Tool Executor step every call of the batch has a tool-result that
\* the tool itself returned, and the next node is the Orchestrator.
C17_ToolFailureIsAResult ==
    prev = "tools" =>
        /\ next = "agent"
        /\ \E i \in 1..Len(messages) :
               /\ messages[i].tool_calls # <<>>
               /\ \A c \in 1..Len(messages[i].tool_calls) :
                      \E j \in ResultsFor(messages, messages[i].tool_calls[c].id) :
                          messages[j].kind \in ToolResultKinds


RECURSIVE SumPrompt(_)
SumPrompt(calls) ==
    IF calls = <<>> THEN 0 ELSE Head(calls)[1] + SumPrompt(Tail(calls))

RECURSIVE SumCompletion(_)
SumCompletion(calls) ==
    IF calls = <<>> THEN 0 ELSE Head(calls)[2] + SumCompletion(Tail(calls))

\* C19: after any sequence of track_interaction(p_i, c_i) calls on a fresh
\* counter, get_summary reports the sum of the p_i as total_prompt_tokens, the
\* sum of the c_i as total_completion_tokens, the sum of the p_i + c_i as
\* total_tokens, and the number of calls as total_interactions.
C19_SummaryIsSumOfCalls ==
    LET summary == get_summary(counter) IN
        /\ summary.total_prompt_tokens = SumPrompt(tracked)
        /\ summary.total_completion_tokens = SumCompletion(tracked)
        /\ summary.total_tokens = SumPrompt(tracked) + SumCompletion(tracked)
        /\ summary.total_interactions = Len(tracked)

C19_Witness ==
    /\ Len(tracked) = 2
    /\ tracked[1] # tracked[2]
    /\ tracked[1][1] > 0 /\ tracked[2][2] > 0
    /\ get_summary(counter).total_tokens = SumPrompt(tracked) + SumCompletion(tracked)
    /\ get_summary(counter).total_interactions = 2

\* C20: extract_token_counts returns None when the message reports no prompt
\* count or no completion count, and otherwise the two reported counts with
\* total_tokens their sum; the call leaves the counter's totals and history
\* as they were.
C20_ExtractReadsOnly ==
    [][extracted' # extracted =>
        LET usage == extracted'.message.usage
            counts == extracted'.counts
        IN  /\ (~usage.hasP \/ ~usage.hasC) => counts.none
            /\ (usage.hasP /\ usage.hasC) =>
                  /\ ~counts.none
                  /\ counts.prompt_tokens = usage.p
                  /\ counts.completion_tokens = usage.c
                  /\ counts.total_tokens = usage.p + usage.c
            /\ counter' = counter
            /\ tracked' = tracked]_vars

C20_Witness ==
    /\ extracted.called
    /\ extracted.message.usage.hasP
    /\ ~extracted.message.usage.hasC
    /\ extracted.counts.none
    /\ Len(tracked) = 1
    /\ counter.total_tokens > 0

\* C21: after a rejecting decision the assistant turn that carried the tool
\* calls holds no tool calls any more in messages, and exactly one directive
\* turn (answer without tools) follows it.
C21_RejectionReplacesCalls ==
    (prev = "approval_gate" /\ gate.resumed /\ Rejects(gate.decision)) =>
        /\ Len(messages) >= 2
        /\ Last(messages) = RejectionMessage
        /\ messages[Len(messages) - 1].type = "ai"
        /\ messages[Len(messages) - 1].tool_calls = <<>>
        /\ \A i \in 1..Len(messages) :
              CallIds(messages[i].tool_calls) \cap CallIds(gate.batch) = {}

\* C22: an approving decision makes the gate step a no-op: messages (with the
\* pending tool calls of the last turn), rag_context, retrieved_documents, the
\* counters and bypass_agent are unchanged by it.
C22_ApprovalIsNoOp ==
    [][(interrupted # NoInterrupt /\ gate'.resumed /\ Approves(gate'.decision)) =>
          /\ messages' = messages
          /\ Last(messages').tool_calls = gate'.batch
          /\ UNCHANGED <<rag_context, retrieved_documents, total_tokens,
                         total_prompt_tokens, total_completion_tokens, context_limit,
                         bypass_agent>>]_vars

C22_Witness ==
    /\ prev = "approval_gate"
    /\ gate.resumed
    /\ gate.decision = [kind |-> "dict", approved |-> "true"]
    /\ Last(messages).tool_calls = gate.batch
    /\ Len(gate.batch) = 2
    /\ next = "rag_agent"

\* C23: a node step suspends the traversal if and only if the node is the
\* Approval Gate, the gate is enabled and the last turn carries tool calls; the
\* request then lists those calls (name, arguments, id) in their order. In any
\* other case the gate returns an empty patch and does not suspend.
C23_SuspendsOnlyAtGate ==
    [][interrupted = NoInterrupt =>
        LET calls == Last(messages).tool_calls
            due == next = "approval_gate" /\ approvalEnabled /\ calls # <<>>
        IN  /\ (interrupted' # NoInterrupt) <=> due
            /\ due =>
                  /\ Len(interrupted') = Len(calls)
                  /\ \A i \in 1..Len(calls) :
                        /\ interrupted'[i].name = calls[i].name
                        /\ interrupted'[i].args = calls[i].args
                        /\ interrupted'[i].id = calls[i].id
            /\ (next = "approval_gate" /\ ~due) =>
                  /\ messages' = messages
                  /\ UNCHANGED <<rag_context, retrieved_documents, total_tokens,
                                 total_prompt_tokens, total_completion_tokens,
                                 context_limit, bypass_agent>>]_vars

C23_Witness ==
    /\ prev = "approval_gate"
    /\ next = "approval_gate"
    /\ approvalEnabled
    /\ Len(interrupted) = 2
    /\ interrupted[1].name = "search_f150_manual"
    /\ interrupted[2] = [name |-> "search_web", args |-> "Q", id |-> 2]
    /\ ~gate.resumed

\* C24: the second similarity search (original query, k = 8) is issued if and
\* only if fewer than 2 documents survived the first search and the
\* reformulated query differs from the original; when the reformulation failed
\* or gave back the original query there is no second search, even with 0
\* survivors.
C24_SecondSearchIff ==
    (ragRun.ran /\ ragRun.query # "") =>
        /\ Len(ragRun.searches) = 2
              <=> (ragRun.first < 2 /\ ragRun.reformulated # ragRun.query)
        /\ Len(ragRun.searches) = 2 =>
              ragRun.searches[2] = [query |-> ragRun.query, k |-> 8]
        /\ ragRun.reformulated = ragRun.query => Len(ragRun.searches) = 1

C24_Witness ==
    /\ ragRun.ran
    /\ ragRun.query = "Q"
    /\ ragRun.reformulated = ragRun.query
    /\ ragRun.first = 0
    /\ Len(ragRun.searches) = 1
    /\ retrieved_documents = <<>>

\* C25: when the reformulation call fails or returns empty text, the Retrieval
\* Agent searches with the original query and returns a tool-result; the run
\* and the traversal go on.
C25_ReformulationFailureTolerated ==
    (ragRun.ran /\ ragRun.reformulations = 1
            /\ (ragRun.reform.raises \/ ragRun.reform.body = "")) =>
        /\ ragRun.reformulated = ragRun.query
        /\ Len(ragRun.searches) >= 1
        /\ ragRun.searches[1].query = ragRun.query
        /\ Last(messages).type = "tool"
        /\ Last(messages).kind \in {"rag_count", "rag_no_relevant"}
        /\ next = "agent"

C25_Witness ==
    /\ ragRun.ran
    /\ ragRun.reform.raises
    /\ ragRun.searches = <<[query |-> "Q", k |-> 5]>>
    /\ Last(messages).kind = "rag_count"
    /\ Len(retrieved_documents) = 3

\* the position in the ranked list of the k-th document of a set of positions
KthOf(positions, k) ==
    CHOOSE i \in positions : Cardinality({x \in positions : x < i}) = k - 1

\* C26: relevance filtering of a ranked list: up to 5 results are all accepted
\* in rank order and nothing is judged; of more than 5 only the first 10 are
\* judged, a document is accepted when judged relevant or when its judgment
\* fails, and the output is the first 5 accepted, in rank order.
C26_RelevanceFilter ==
    assess.called =>
        LET documents == assess.documents
            n == Len(documents)
            accepted == {i \in 1..Min(10, n) : assess.judgment[i] \in {"yes", "raise"}}
        IN  IF n <= 5
            THEN assess.result = documents /\ assess.judged = 0
            ELSE /\ assess.judged = Min(10, n)
                 /\ Len(assess.result) = Min(5, Cardinality(accepted))
                 /\ \A k \in 1..Len(assess.result) :
                       assess.result[k] = documents[KthOf(accepted, k)]

C26_Witness ==
    /\ assess.called
    /\ Len(assess.documents) = 11
    /\ assess.judgment[1] = "no"
    /\ assess.judgment[2] = "raise"
    /\ \A i \in 3..10 : assess.judgment[i] = "yes"
    /\ Len(assess.result) = 5
    /\ assess.result[1] = assess.documents[2]
    /\ assess.result[5] = assess.documents[6]

\* the manual-search call the last turn leaves pending (NoCall if none)
PendingManual(msgs) ==
    LET calls == Last(msgs).tool_calls
        i == FirstManual(calls)
    IN  IF i = 0 THEN NoCall
        ELSE [found |-> TRUE, query |-> calls[i].args, id |-> calls[i].id]

\* C27: when the pending manual-search call has no query (absent or empty), or
\* there is no such call, the Retrieval Agent returns an error tool-result with
\* empty rag_context and retrieved_documents, and calls neither the Completion
\* Service nor the Retrieval Index.
C27_NoQueryIsAnError ==
    [][(next = "rag_agent" /\ PendingManual(messages).query = "") =>
          /\ Last(messages').type = "tool"
          /\ Last(messages').kind = "rag_error_no_query"
          /\ rag_context' = <<>>
          /\ retrieved_documents' = <<>>
          /\ llmCalls' = llmCalls
          /\ indexQueries' = indexQueries]_vars

\* what C28 says of the state a Retrieval Agent run leaves
RagResultConsistent ==
    /\ rag_context = <<>> <=> retrieved_documents = <<>>
    /\ retrieved_documents = <<>> => Last(messages).kind = "rag_no_relevant"
    /\ retrieved_documents # <<>> =>
          /\ Last(messages).kind = "rag_count"
          /\ Last(messages).n = Len(retrieved_documents)
          /\ \A k \in 1..Len(retrieved_documents) :
                \E e \in Range(rag_context) :
                    /\ e.page = retrieved_documents[k].page
                    /\ e.content = retrieved_documents[k].page_content

\* C28 as stated: at the end of every Retrieval Agent run rag_context is empty
\* if and only if no document survived; the tool-result is then the
\* no-relevant-information notice, and otherwise states the number of
\* retrieved_documents, each of which is in rag_context with its page label.
C28_EveryRunConsistent == ragRun.ran => RagResultConsistent

\* C28, amended: the same, at the end of every Retrieval Agent run that had a
\* query to search for (a run without one ends with the error result).
C28_RunWithQueryConsistent == (ragRun.ran /\ ragRun.query # "") => RagResultConsistent

C28_Witness ==
    /\ ragRun.ran
    /\ Len(ragRun.searches) = 2
    /\ Len(retrieved_documents) = 4
    /\ Len(rag_context) = 6
    /\ Last(messages).kind = "rag_count"
    /\ Last(messages).n = 4

\* C29: an Orchestrator step appends exactly one assistant turn to messages
\* and changes nothing else: rag_context, retrieved_documents, the token
\* counters, context_limit and bypass_agent are as before.
C29_OrchestratorAppendsOneTurn ==
    [][next = "agent" =>
          /\ Len(messages') = Len(messages) + 1
          /\ SubSeq(messages', 1, Len(messages)) = messages
          /\ Last(messages').type = "ai"
          /\ UNCHANGED <<rag_context, retrieved_documents, total_tokens,
                         total_prompt_tokens, total_completion_tokens, context_limit,
                         bypass_agent>>]_vars

C29_Witness ==
    /\ prev = "agent"
    /\ turns = 2
    /\ total_tokens > 0
    /\ Last(messages).type = "ai"
    /\ Last(messages).tool_calls # <<>>
    /\ \E i \in 1..Len(messages) : messages[i].type = "system"

\* C30: the prompt the Orchestrator sends is one system message (carrying
\* rag_context exactly when rag_context is non-empty) followed by the history
\* without any system message: the prompt holds exactly one system message,
\* also after the Context Tracker has put advisory turns into messages.
C30_PromptHasOneSystemMessage ==
    next = "agent" =>
        LET prompt == CallModelPrompt(messages) IN
            /\ prompt[1].type = "system"
            /\ prompt[1].kind = "system_prompt"
            /\ prompt[1].docs # <<>> <=> rag_context # <<>>
            /\ Cardinality({i \in 1..Len(prompt) : prompt[i].type = "system"}) = 1

\* C31: every Pre-Filter run rewrites bypass_agent from the last user turn
\* alone: on a non-conversational user turn it becomes FALSE and the turn is
\* routed to the agent, also when an earlier conversational turn had left it
\* TRUE in the thread's state.
C31_BypassRewrittenEveryRun ==
    [][(/\ next = "pre_filter"
        /\ LastHuman(messages) # 0
        /\ ~is_conversational_only(messages[LastHuman(messages)].text))
       => (/\ bypass_agent' = FALSE
           /\ next' = "agent"
           /\ messages' = messages)]_vars

C31_Witness ==
    /\ prev = "pre_filter"
    /\ next = "agent"
    /\ ~bypass_agent
    /\ turns = 2
    /\ Len(messages) = 3
    /\ is_conversational_only(messages[1].text)
    /\ messages[2].kind \in CannedKinds
    /\ ~is_conversational_only(messages[3].text)

\* the phrases of the taxonomy
Taxonomy == Greetings \cup Thanks \cup Acknowledgments \cup Farewells
            \cup Affirmations \cup Negations

\* the text without the run of whitespace, '!' and '.' at its end
RECURSIVE Core(_)
Core(text) ==
    IF text # <<>> /\ Last(text) \in Trailing
    THEN Core(SubSeq(text, 1, Len(text) - 1))
    ELSE text

Spaces(k) == [i \in 1..k |-> " "]

\* the whole text is one taxonomy phrase, or an acknowledgment and a thanks
WholeMessage(text) ==
    LET core == Core(Strip(Lower(text))) IN
        \/ core \in Taxonomy
        \/ \E a \in CombinedAck, t \in CombinedThanks, k \in 0..Len(core) :
              core = a \o Spaces(k) \o t

\* a one-word taxonomy phrase next to a word that no taxonomy phrase contains
TaxonomyWordAmongOthers(text) ==
    LET lowered == Lower(text) IN
        /\ \E i \in 1..Len(lowered) : <<lowered[i]>> \in Taxonomy
        /\ \E j \in 1..Len(lowered) :
              /\ lowered[j] \notin Trailing
              /\ \A p \in Taxonomy : lowered[j] \notin Range(p)

\* C32: a user turn is classified conversational exactly when, lower-cased and
\* trimmed, the whole of it is one taxonomy phrase (or an acknowledgment
\* followed by a thanks) followed only by whitespace, '!' or '.'; a text that
\* holds a taxonomy word among other words is not conversational and goes to
\* the agent.
C32_WholeMessageMatch ==
    (prev = "pre_filter" /\ turns = 1) =>
        /\ bypass_agent <=> WholeMessage(messages[1].text)
        /\ TaxonomyWordAmongOthers(messages[1].text) => (~bypass_agent /\ next = "agent")

C32_Witness ==
    /\ prev = "pre_filter"
    /\ turns = 1
    /\ messages[1].text = <<"Thanks", " ", "fuse", "!">>
    /\ ~bypass_agent
    /\ next = "agent"

\* C33: the node a thread is routed to is a function of its state alone, of
\* bypass_agent after pre_filter and of the last message after agent, whatever
\* the turn, the earlier rounds and the calls already executed; choosing the
\* route changes nothing of the state beyond what the node returned.
C33_RoutingIsFunctionOfState ==
    [][/\ next = "pre_filter" =>
            /\ next' = IF bypass_agent' THEN "END" ELSE "agent"
            /\ UNCHANGED <<ragState, counters>>
            /\ SubSeq(messages', 1, Len(messages)) = messages
            /\ Len(messages') = Len(messages) + IF bypass_agent' THEN 1 ELSE 0
       /\ next = "agent" =>
            /\ next' = IF Last(messages').tool_calls # <<>> THEN "tools" ELSE "token_tracker"
            /\ UNCHANGED <<bypass_agent, ragState, counters>>
            /\ SubSeq(messages', 1, Len(messages)) = messages
            /\ Len(messages') = Len(messages) + 1]_vars

C33_Witness ==
    /\ prev = "agent"
    /\ next = "token_tracker"
    /\ turns = 2
    /\ executed # {}
    /\ \E i \in 1..Len(messages) : messages[i].tool_calls # <<>>
    /\ Last(messages).tool_calls = <<>>

\* C34: every traversal that invoke starts ends, provided the collaborators
\* return and the Completion Service, after at most MaxRounds turns with tool
\* calls, returns a turn without them; the graph itself runs the agent/tools
\* cycle as often as such turns arrive.
C34_TraversalTerminates == (next # "END") ~> (next = "END")

C34_Witness ==
    /\ next = "END"
    /\ prev = "token_tracker"
    /\ rounds = MaxRounds
    /\ llmCalls = MaxRounds + 1
    /\ executed # {}

\* C35: messages is append-only: whatever step is taken (user turn,
\* Pre-Filter, Orchestrator, Approval Gate with an approval or a rejection,
\* Retrieval Agent, Tool Executor, Context Tracker) the log before the step is
\* a prefix of the log after it.
C35_MessagesAppendOnly ==
    [][/\ Len(messages') >= Len(messages)
       /\ SubSeq(messages', 1, Len(messages)) = messages]_vars

C35_Witness ==
    /\ prev = "approval_gate"
    /\ gate.resumed
    /\ Rejects(gate.decision)
    /\ Len(messages) >= 3
    /\ Last(messages) = RejectionMessage
    /\ messages[Len(messages) - 1].tool_calls # <<>>

\* the band of a usage percentage: critical from 95, warning from 80,
\* moderate from 60
Band(total, limit) ==
    IF total * 100 >= CriticalPct * limit THEN "critical"
    ELSE IF total * 100 >= WarningPct * limit THEN "warning"
    ELSE IF total * 100 >= ModeratePct * limit THEN "moderate"
    ELSE "none"

\* C36: a Context Tracker update leaves total_tokens = total_prompt_tokens +
\* total_completion_tokens and context_limit = the tracker's limit, and the
\* advisory turn it appends, or not, is the one of the band of the updated
\* total_tokens / context_limit.
C36_TrackerUpdateConsistent ==
    [][(next = "token_tracker" /\ counters' # counters) =>
          /\ total_tokens' = total_prompt_tokens' + total_completion_tokens'
          /\ context_limit' = trackerLimit
          /\ IF Band(total_tokens', context_limit') = "none"
             THEN messages' = messages
             ELSE messages' = Append(messages,
                      SystemMessage(Band(total_tokens', context_limit'), <<>>,
                                    context_limit' - total_tokens'))]_vars

C36_Witness ==
    /\ prev = "token_tracker"
    /\ turns = 2
    /\ context_limit = ScenarioLimit
    /\ total_tokens = total_prompt_tokens + total_completion_tokens
    /\ Last(messages).type = "system"
    /\ Last(messages).kind = "critical"
    /\ \E i \in 1..Len(messages) - 1 : messages[i].kind = "moderate"

\* C37: the counters change in the Context Tracker step only; that step comes
\* once in a traversal, after the Orchestrator's final turn and before END,
\* and in a traversal with tool rounds it adds the counts of that final turn
\* alone, not those of the tool-requesting turns before it.
C37_TrackerAddsLastTurnOnly ==
    [][/\ next # "token_tracker" => UNCHANGED counters
       /\ (next = "token_tracker" /\ llmCalls >= 2) =>
            /\ prev = "agent"
            /\ next' = "END"
            /\ Last(messages).type = "ai"
            /\ Last(messages).tool_calls = <<>>
            /\ total_prompt_tokens' = total_prompt_tokens + Last(messages).usage.p
            /\ total_completion_tokens' = total_completion_tokens + Last(messages).usage.c
            /\ total_tokens' = total_tokens + Last(messages).usage.p + Last(messages).usage.c]_vars

C37_Witness ==
    /\ prev = "token_tracker"
    /\ next = "END"
    /\ llmCalls = 2
    /\ turns = 1
    /\ \E i \in 1..Len(messages) : messages[i].tool_calls # <<>> /\ messages[i].usage.p > 0
    /\ total_tokens = Pct(trackerLimit, 50) + Pct(trackerLimit, 10)

\* C38: fed the same assistant turns, the Context Tracker of the graph and the
\* OllamaTokenCounter hold the same prompt, completion and total counts.
C38_TrackersAgree ==
    /\ counter.total_prompt_tokens = total_prompt_tokens
    /\ counter.total_completion_tokens = total_completion_tokens
    /\ counter.total_tokens = total_tokens

\* C39: a Retrieval Agent run leaves at most 5 documents in
\* retrieved_documents, asks for relevance judgments only when it ran the
\* fallback search (the at most 5 results of the first search are taken
\* unjudged), and makes at most 8 judgment calls and one reformulation call.
C39_RagRunBounded ==
    ragRun.ran =>
        /\ Len(retrieved_documents) <= TopRelevant
        /\ ragRun.judged > 0 =>
              /\ Len(ragRun.searches) = 2
              /\ ragRun.searches[2] = FallbackSearch(ragRun.query)
              /\ ragRun.first < RagMinRelevant
        /\ ragRun.judged <= RagFallbackK
        /\ ragRun.reformulations <= 1

C39_Witness ==
    /\ ragRun.ran
    /\ Len(ragRun.searches) = 2
    /\ ragRun.judged = RagFallbackK
    /\ ragRun.reformulations = 1
    /\ Len(retrieved_documents) = TopRelevant

\* C40: when the fallback search ran, retrieved_documents holds documents of
\* the second search only, in its ranking; what the first search had accepted
\* is dropped, not merged, so the run may end with fewer documents than the
\* first search gave.
C40_FallbackReplaces ==
    (ragRun.ran /\ Len(ragRun.searches) = 2) =>
        /\ ragRun.searches[1].query # ragRun.searches[2].query
        /\ \A i \in 1..Len(retrieved_documents) :
              /\ retrieved_documents[i].page_content[1] = ragRun.searches[2].query
              /\ retrieved_documents[i].page_content[2] \in 1..ragRun.searches[2].k
        /\ \A i, j \in 1..Len(retrieved_documents) :
              i < j => retrieved_documents[i].page_content[2]
                           < retrieved_documents[j].page_content[2]
        /\ Last(messages).n = Len(retrieved_documents)

C40_Witness ==
    /\ ragRun.ran
    /\ Len(ragRun.searches) = 2
    /\ ragRun.first = 1
    /\ retrieved_documents = <<>>
    /\ rag_context = <<>>
    /\ Last(messages).kind = "rag_no_relevant"

====
